---- MODULE Spec2Model ----
(***************************************************************************)
(* Checkpointed ingestion pipeline of procesar_tiendas.py                  *)
(* (class TiendaProcessor): folder traversal, checkpoint reconstruction,   *)
(* coordinate and document extraction with retry/backoff, aggregation and  *)
(* incremental whole-collection persistence, across process restarts.      *)
(*                                                                         *)
(* Python None is the empty sequence <<>> and a present value x is <<x>>;  *)
(* a filesystem path is the sequence of its components.                    *)
(***************************************************************************)
EXTENDS Integers, Sequences, FiniteSets, TLC

\* ------------------------------------------------------------- bounds
\* Number of store folders of the input tree (the first ones of ArbolTiendas).
NumTiendas == 2
\* Number of times the process is started over the same tree.
MaxCorridas == 2

\* ---------------------------------------------------- program constants
\* analizar_pdf_con_ia(self, pdf_path, max_retries: int = 3)
MaxRetries == 3
\* COSTO_INPUT_1M = 1.75 and COSTO_OUTPUT_1M = 14.00 USD, in hundredths of a USD
COSTO_INPUT_1M == 175
COSTO_OUTPUT_1M == 1400

None == <<>>
Some(x) == <<x>>

\* ------------------------------------------------------------ the tree
\* self.root_path: the folder "info" beside the script.
RootPath == <<"proyecto", "info">>

\* Leaf folders year/city/store in the order of the three nested sorted()
\* scans.  Two stores share ordinal, numeric id and name under different
\* years.
ArbolTiendas ==
  << [anio |-> "2023", ciudad |-> "GDL", carpeta |-> "01) 42056 FELIX CASTRO"],
     [anio |-> "2023", ciudad |-> "MTY", carpeta |-> "01) 42077 CENTRO"],
     [anio |-> "2024", ciudad |-> "GDL", carpeta |-> "01) 42056 FELIX CASTRO"],
     [anio |-> "2024", ciudad |-> "MTY", carpeta |-> "02) 42090 NORTE"],
     [anio |-> "2025", ciudad |-> "GDL", carpeta |-> "01) 42077 CENTRO"] >>

Tiendas == 1..NumTiendas

\* Path.parent
Parent(p) == SubSeq(p, 1, Len(p) - 1)

IsPrefix(base, p) == Len(base) <= Len(p) /\ SubSeq(p, 1, Len(base)) = base

\* Path.relative_to(base) where base is a prefix of p (else ValueError).
RelativeTo(p, base) == SubSeq(p, Len(base) + 1, Len(p))

\* item["path"] of tiendas_a_procesar
TiendaDir(i) ==
  RootPath \o <<ArbolTiendas[i].anio, ArbolTiendas[i].ciudad, ArbolTiendas[i].carpeta>>

\* An identity made of the folder name alone.
RelPathSoloCarpeta(i) == <<ArbolTiendas[i].carpeta>>

\* rel_path = str(tienda_dir.relative_to(self.root_path.parent))
RelPath(i) == RelativeTo(TiendaDir(i), Parent(RootPath))

\* parsear_nombre_tienda on the folder names of ArbolTiendas: the pattern
\* ^\d+\)\s*(\d+)\s+(.+)$ matches each of them.
ParsearNombreTienda(carpeta) ==
  CASE carpeta = "01) 42056 FELIX CASTRO" -> [id |-> "42056", nombre |-> "FELIX CASTRO"]
    [] carpeta = "01) 42077 CENTRO" -> [id |-> "42077", nombre |-> "CENTRO"]
    [] carpeta = "02) 42090 NORTE" -> [id |-> "42090", nombre |-> "NORTE"]
    [] OTHER -> [id |-> "N/A", nombre |-> carpeta]

\* ----------------------------------------------------------- the state
VARIABLES
  hasKmz,                   \* input tree: store folder holds a *.kmz file
  hasPdf,                   \* input tree: store folder holds a *.pdf file
  jsonFile,                 \* <output>.json
  xlsxFile,                 \* <output>.xlsx
  csvFile,                  \* <output>.csv
  errFile,                  \* <output>_errores.csv
  corrida,                  \* how many times the process has been started
  pc,                       \* position of the process
  resultados,               \* self.resultados
  tiendas_procesadas_paths, \* self.tiendas_procesadas_paths
  errores,                  \* self.errores
  total_input_tokens,       \* self.total_input_tokens
  total_output_tokens,      \* self.total_output_tokens
  total_cost,               \* self.total_cost, in 10^-8 USD
  idx,                      \* position of the main loop in tiendas_a_procesar
  coords,                   \* (lat, lon) of the store in progress
  ia_data,                  \* ia_data of the store in progress
  intento,                  \* loop variable of analizar_pdf_con_ia
  retorno,                  \* where the running _guardar_resultados returns to
  traza,                    \* history: service calls and sleeps of the running extraction
  omitidas,                 \* history: stores skipped by this run
  nuevas,                   \* history: stores appended by this run, in order
  iniciadas,                \* history: stores whose processing has started, in any run
  persistidas,              \* history: stores written by a completed JSON dump, in any run
  jsonPrevio,               \* history: the JSON file at the end of the previous run, if it completed
  senal,                    \* a KeyboardInterrupt has been raised in the running process
  rootExists,               \* input tree: self.root_path exists
  entrada,                  \* argument of the function under study, when one is studied alone
  salida                    \* what that function returned

archivos == <<jsonFile, xlsxFile, csvFile, errFile>>
arbol == <<hasKmz, hasPdf, rootExists>>
calculo == <<entrada, salida>>
totales == <<total_input_tokens, total_output_tokens, total_cost>>
memoria == <<resultados, tiendas_procesadas_paths, errores>>
historia == <<omitidas, nuevas, iniciadas, persistidas, jsonPrevio>>
vars == <<hasKmz, hasPdf, jsonFile, xlsxFile, csvFile, errFile, corrida, pc,
          resultados, tiendas_procesadas_paths, errores, total_input_tokens,
          total_output_tokens, total_cost, idx, coords, ia_data, intento,
          retorno, traza, omitidas, nuevas, iniciadas, persistidas, jsonPrevio,
          senal, rootExists, entrada, salida>>

\* ----------------------------------------------------------- the files
Ausente == [estado |-> "ausente", datos |-> <<>>]
Truncado == [estado |-> "truncado", datos |-> <<>>]
\* A completed write of the whole collection.
Completo(filas) == [estado |-> "completo", datos |-> filas]

\* kmz_files[0] / pdf_files[0] of the store folder, or None
KmzFile(i) == IF hasKmz[i] THEN Some(TiendaDir(i) \o <<"ubicacion.kmz">>) ELSE None
PdfFile(i) == IF hasPdf[i] THEN Some(TiendaDir(i) \o <<"reporte.pdf">>) ELSE None

\* A file that holds valid JSON that is no list.
NoLista == [estado |-> "no_lista", datos |-> <<>>]
\* A file that holds a JSON list with an element that is no object.
ListaAjena == [estado |-> "lista_ajena", datos |-> <<>>]

\* _cargar_checkpoint: the list of the JSON file; [] when the file is absent,
\* json.load raises on it, or its value is no list.
CargarCheckpoint ==
  IF jsonFile.estado = "completo" THEN jsonFile.datos ELSE <<>>

\* A reconstruction that leaves out the records that carry an error, so
\* that their stores are tried again.
ClaveCheckpointSinErrores(r) ==
  IF r.Error_Procesamiento # None \/ r.Archivo_PDF = None THEN {}
  ELSE IF IsPrefix(Parent(RootPath), Parent(r.Archivo_PDF[1]))
       THEN {RelativeTo(Parent(r.Archivo_PDF[1]), Parent(RootPath))}
       ELSE {Parent(r.Archivo_PDF[1])}

\* __init__, lines 187-204: the identity recovered from one loaded record, as
\* the set of the elements it adds to tiendas_procesadas_paths.
ClaveCheckpoint(r) ==
  LET path_str == IF r.Archivo_PDF # None THEN Parent(r.Archivo_PDF[1])
                  ELSE IF r.Archivo_KMZ # None THEN Parent(r.Archivo_KMZ[1])
                  ELSE None
  IN  IF path_str = None THEN {}
      ELSE IF IsPrefix(Parent(RootPath), path_str)
           THEN {RelativeTo(path_str, Parent(RootPath))}
           ELSE {path_str}

ReconstruirPaths(rs) == UNION {ClaveCheckpoint(rs[k]) : k \in 1..Len(rs)}

\* ------------------------------------------- the document extractor
\* response.usage of a reply
UsageVals == { [prompt_tokens |-> 1000, completion_tokens |-> 500] }

\* A cost with the two rates exchanged.
CostoLlamadaTasasCambiadas(u) ==
  u.prompt_tokens * COSTO_OUTPUT_1M + u.completion_tokens * COSTO_INPUT_1M

\* costo_llamada, in 10^-8 USD
CostoLlamada(u) == u.prompt_tokens * COSTO_INPUT_1M + u.completion_tokens * COSTO_OUTPUT_1M

\* What client.chat.completions.create and the reading of its reply can do.
\* A reply carries content and usage; content is a JSON object whose sections
\* are objects ("objeto"), a JSON object with a section that is a non-empty
\* string or list ("objeto_mal_tipo"), valid JSON that is no object
\* ("no_objeto"), text that holds such an object inside other text
\* ("reparable", "reparable_mal_tipo"), or text that holds no JSON ("invalido").
Contenidos ==
  {"objeto", "objeto_mal_tipo", "no_objeto", "reparable", "reparable_mal_tipo", "invalido"}

Desenlaces ==
  [tipo : {"respuesta"}, contenido : Contenidos, usage : UsageVals]
    \cup [tipo : {"rate_limit", "api_error", "excepcion"}, contenido : {""},
          usage : {[prompt_tokens |-> 0, completion_tokens |-> 0]}]

\* resultado_vacio with its error field set
ResultadoVacio(msg) == [secciones |-> "nulas", error |-> Some(msg), usage |-> None]

\* The parsed reply with resultado["_usage"] attached.
ResultadoOk(forma, u) ==
  [secciones |-> forma, error |-> None,
   usage |-> Some([prompt_tokens |-> u.prompt_tokens,
                   completion_tokens |-> u.completion_tokens,
                   cost_usd |-> CostoLlamada(u)])]

\* A backoff that does not grow with the attempt.
WaitTimeFijo(i) == 30

\* wait_time = (intento + 1) * 30
WaitTime(i) == (i + 1) * 30

Llamada(d) ==
  [ev |-> "llamada", res |-> IF d.tipo = "respuesta" THEN d.contenido ELSE d.tipo,
   secs |-> 0, usage |-> IF d.tipo = "respuesta" THEN Some(d.usage) ELSE None]
Sleep(n) == [ev |-> "sleep", res |-> "", secs |-> n, usage |-> None]

\* A service error that is retried on the last attempt too.
ReintentaApiSiempre(i) == i < MaxRetries

\* The APIError branch: retry after 5 s unless this was the last attempt.
ReintentaApi(i) == i < MaxRetries - 1

IaSinDatos == [secciones |-> "nulas", error |-> None, usage |-> None]
SinCoords == [lat |-> None, lon |-> None]


\* A retry loop that runs once too often.
QuedanIntentosDeMas(i) == i <= MaxRetries

\* for intento in range(max_retries)
QuedanIntentos(i) == i < MaxRetries

\* ---------------------------------------------- the coordinate extractor
\* What extraer_coordenadas_kmz returns: the pair of the first parseable
\* point (here 19.4326, -99.1332 in 10^-4 degrees), or (None, None) for an
\* invalid archive, no KML, an XML error or no parseable point.
ResultadosKmz == {[lat |-> Some(194326), lon |-> Some(-991332)], SinCoords}

\* ------------------------------------------------- the result aggregator
\* `ia_data.get(section) or {}` followed by .get on it: a section that is a
\* non-empty string or list has no .get and raises AttributeError.
ConstruirFalla(ia) == ia.secciones = "mal_tipo"

\* _construir_resultado: the flat record of store i.  Campos_IA stands for
\* the AI-derived columns.
ConstruirResultado(i, c, ia) ==
  [Anio |-> ArbolTiendas[i].anio,
   Ciudad |-> ArbolTiendas[i].ciudad,
   ID_Tienda |-> ParsearNombreTienda(ArbolTiendas[i].carpeta).id,
   Nombre_Tienda |-> ParsearNombreTienda(ArbolTiendas[i].carpeta).nombre,
   Latitud_KMZ |-> c.lat,
   Longitud_KMZ |-> c.lon,
   Campos_IA |-> IF ia.secciones = "pobladas" THEN "poblados" ELSE "nulos",
   Archivo_KMZ |-> KmzFile(i),
   Archivo_PDF |-> PdfFile(i),
   Error_Procesamiento |-> ia.error]

\* The store folder a record was built from.
TiendaDe(r) ==
  CHOOSE i \in 1..Len(ArbolTiendas) :
    /\ ArbolTiendas[i].anio = r.Anio
    /\ ArbolTiendas[i].ciudad = r.Ciudad
    /\ ParsearNombreTienda(ArbolTiendas[i].carpeta).nombre = r.Nombre_Tienda

TiendasEn(rs) == {TiendaDe(rs[k]) : k \in 1..Len(rs)}

\* ------------------------------------------------------------- actions
\* The files of a store folder, as a number: 0 none, 1 the document only,
\* 2 the geodata file only, 3 both.
Dotacion(kmz, pdf) == (IF kmz THEN 2 ELSE 0) + (IF pdf THEN 1 ELSE 0)

\* No process has run yet.  Every store folder holds any subset of its two
\* files; the driver treats every folder alike, so of the trees that differ
\* only in which folder comes first, the one in non-decreasing order stands
\* for all.
Init ==
  /\ hasKmz \in [Tiendas -> BOOLEAN]
  /\ hasPdf \in [Tiendas -> BOOLEAN]
  /\ \A i \in Tiendas : \A j \in Tiendas :
       i < j => Dotacion(hasKmz[i], hasPdf[i]) <= Dotacion(hasKmz[j], hasPdf[j])
  /\ jsonFile = Ausente
  /\ xlsxFile = Ausente
  /\ csvFile = Ausente
  /\ errFile = Ausente
  /\ corrida = 0
  /\ pc = "inicio"
  /\ resultados = <<>>
  /\ tiendas_procesadas_paths = {}
  /\ errores = <<>>
  /\ total_input_tokens = 0
  /\ total_output_tokens = 0
  /\ total_cost = 0
  /\ idx = 1
  /\ coords = SinCoords
  /\ ia_data = IaSinDatos
  /\ intento = 0
  /\ retorno = "bucle"
  /\ traza = <<>>
  /\ omitidas = {}
  /\ nuevas = <<>>
  /\ iniciadas = {}
  /\ persistidas = {}
  /\ jsonPrevio = None
  /\ senal = FALSE
  /\ rootExists = TRUE
  /\ entrada = <<>>
  /\ salida = <<>>

\* __init__, lines 187-190: r.get on an element of the loaded list that is
\* not an object raises AttributeError, outside any try.
InicioFalla == jsonFile.estado = "lista_ajena"

\* The process starts: TiendaProcessor.__init__ and procesar up to its main
\* loop (the root exists; tiendas_a_procesar is ArbolTiendas).
Arrancar ==
  /\ pc \in {"inicio", "hecho", "caida", "abortada", "interrumpida"}
  /\ corrida < MaxCorridas
  /\ rootExists
  /\ ~InicioFalla
  /\ corrida' = corrida + 1
  /\ resultados' = CargarCheckpoint
  /\ tiendas_procesadas_paths' = ReconstruirPaths(CargarCheckpoint)
  /\ errores' = <<>>
  /\ total_input_tokens' = 0
  /\ total_output_tokens' = 0
  /\ total_cost' = 0
  /\ idx' = 1
  /\ coords' = SinCoords
  /\ ia_data' = IaSinDatos
  /\ intento' = 0
  /\ retorno' = "bucle"
  /\ traza' = <<>>
  /\ omitidas' = {}
  /\ nuevas' = <<>>
  /\ jsonPrevio' = IF pc = "hecho" THEN Some(jsonFile) ELSE None
  /\ senal' = FALSE
  /\ pc' = "bucle"
  /\ UNCHANGED <<archivos, arbol, calculo, iniciadas, persistidas>>

\* A checkpoint test on the folder path instead of the relative path.
YaProcesadaRutaAbsoluta(i) == TiendaDir(i) \in tiendas_procesadas_paths

\* if rel_path in self.tiendas_procesadas_paths
YaProcesada(i) == RelPath(i) \in tiendas_procesadas_paths

\* The checkpoint hit: progress.advance; continue
Omitir ==
  /\ pc = "bucle"
  /\ idx <= NumTiendas
  /\ YaProcesada(idx)
  /\ idx' = idx + 1
  /\ omitidas' = omitidas \cup {idx}
  /\ UNCHANGED <<archivos, arbol, calculo, senal, totales, memoria, corrida, pc, coords, ia_data,
                 intento, retorno, traza, nuevas, iniciadas, persistidas, jsonPrevio>>

\* A store not in the checkpoint: find its files, extract the coordinates
\* (or record "KMZ faltante"), and either enter analizar_pdf_con_ia or record
\* "PDF faltante".
BuscarYCoordenadas ==
  /\ pc = "bucle"
  /\ idx <= NumTiendas
  /\ ~YaProcesada(idx)
  /\ iniciadas' = iniciadas \cup {idx}
  /\ IF hasKmz[idx] THEN coords' \in ResultadosKmz ELSE coords' = SinCoords
  /\ errores' =
       errores
       \o (IF hasKmz[idx] THEN <<>>
           ELSE <<[tienda |-> ArbolTiendas[idx].carpeta, error |-> "KMZ faltante"]>>)
       \o (IF hasPdf[idx] THEN <<>>
           ELSE <<[tienda |-> ArbolTiendas[idx].carpeta, error |-> "PDF faltante"]>>)
  /\ IF hasPdf[idx]
     THEN /\ pc' = "ia"
          /\ ia_data' = IaSinDatos
     ELSE /\ pc' = "consolidar"
          /\ ia_data' = [secciones |-> "nulas", error |-> Some("PDF no encontrado"),
                         usage |-> None]
  /\ intento' = 0
  /\ traza' = <<>>
  /\ UNCHANGED <<archivos, arbol, calculo, senal, totales, resultados, tiendas_procesadas_paths,
                 corrida, idx, retorno, omitidas, nuevas, persistidas, jsonPrevio>>

\* A reading of the reply that does not try the repair.
LeerRespuestaSinReparar(d) ==
  CASE d.contenido = "objeto" -> ResultadoOk("pobladas", d.usage)
    [] d.contenido = "objeto_mal_tipo" -> ResultadoOk("mal_tipo", d.usage)
    [] d.contenido = "no_objeto" -> ResultadoVacio("str(e)")
    [] OTHER -> ResultadoVacio("Respuesta invalida de la IA (JSON Error). Raw: content[:100]...")

\* Lines 384-393 and 408-430: json.loads(content), the usage attached to the
\* parsed value (a value that is no object raises there and is caught by
\* `except Exception`), and on JSONDecodeError the repair: the text from the
\* first to the last brace is parsed and returned with the usage attached,
\* else the error result with the first 100 characters of the reply.
LeerRespuesta(d) ==
  CASE d.contenido \in {"objeto", "reparable"} -> ResultadoOk("pobladas", d.usage)
    [] d.contenido \in {"objeto_mal_tipo", "reparable_mal_tipo"} ->
         ResultadoOk("mal_tipo", d.usage)
    [] d.contenido = "no_objeto" -> ResultadoVacio("str(e)")
    [] d.contenido = "invalido" ->
         ResultadoVacio("Respuesta invalida de la IA (JSON Error). Raw: content[:100]...")

\* What one iteration of the retry loop leaves, for outcome d of its call:
\* the events it adds, whether the loop goes on, and the result it returns.
PasoIa(i, d) ==
  CASE d.tipo = "rate_limit" ->
         [eventos |-> <<Llamada(d), Sleep(WaitTime(i))>>, sigue |-> TRUE,
          resultado |-> IaSinDatos]
    [] d.tipo = "api_error" ->
         IF ReintentaApi(i)
         THEN [eventos |-> <<Llamada(d), Sleep(5)>>, sigue |-> TRUE,
               resultado |-> IaSinDatos]
         ELSE [eventos |-> <<Llamada(d)>>, sigue |-> FALSE,
               resultado |-> ResultadoVacio("str(e)")]
    [] d.tipo = "excepcion" ->
         [eventos |-> <<Llamada(d)>>, sigue |-> FALSE,
          resultado |-> ResultadoVacio("str(e)")]
    [] d.tipo = "respuesta" ->
         [eventos |-> <<Llamada(d)>>, sigue |-> FALSE, resultado |-> LeerRespuesta(d)]

\* Counters that are updated only for a reply whose reading gives a result
\* without error.
SumaTokensSiParsea(t, d) ==
  IF d.tipo = "respuesta" /\ LeerRespuesta(d).error = None
  THEN [input |-> t.input + d.usage.prompt_tokens,
        output |-> t.output + d.usage.completion_tokens,
        cost |-> t.cost + CostoLlamada(d.usage)]
  ELSE t

\* Counters that charge every call, also one that ends in an exception.
SumaTokensDeTodaLlamada(t, d) ==
  [input |-> t.input + 1000, output |-> t.output + 500, cost |-> t.cost + 875000]

\* The usage counters after an iteration with outcome d: they are updated
\* as soon as a reply arrives, before json.loads reads its content.
SumaTokens(t, d) ==
  IF d.tipo = "respuesta"
  THEN [input |-> t.input + d.usage.prompt_tokens,
        output |-> t.output + d.usage.completion_tokens,
        cost |-> t.cost + CostoLlamada(d.usage)]
  ELSE t

TotalesActuales ==
  [input |-> total_input_tokens, output |-> total_output_tokens, cost |-> total_cost]

\* One iteration of the retry loop of analizar_pdf_con_ia: the call, the
\* accounting of its usage, the parsing of its reply, or the except branch.
IaIntento ==
  /\ pc = "ia"
  /\ QuedanIntentos(intento)
  /\ \E d \in Desenlaces :
       LET paso == PasoIa(intento, d)
           t == SumaTokens(TotalesActuales, d)
       IN
       /\ traza' = traza \o paso.eventos
       /\ total_input_tokens' = t.input
       /\ total_output_tokens' = t.output
       /\ total_cost' = t.cost
       /\ IF paso.sigue
          THEN /\ intento' = intento + 1
               /\ UNCHANGED <<pc, ia_data>>
          ELSE /\ ia_data' = paso.resultado
               /\ pc' = "consolidar"
               /\ UNCHANGED intento
  /\ UNCHANGED <<archivos, arbol, calculo, senal, memoria, corrida, idx, coords, retorno, historia>>

\* The retry loop ran out: "Máximo de reintentos alcanzado".
IaAgotado ==
  /\ pc = "ia"
  /\ ~QuedanIntentos(intento)
  /\ ia_data' = ResultadoVacio("Maximo de reintentos alcanzado")
  /\ pc' = "consolidar"
  /\ UNCHANGED <<archivos, arbol, calculo, senal, totales, memoria, corrida, idx, coords, intento,
                 retorno, traza, historia>>

\* analizar_pdf_con_ia from attempt i to its return, for the outcomes ds of
\* its successive calls: the iterations above, run to the end.
RECURSIVE EjecutarIa(_, _, _)
EjecutarIa(i, ds, t) ==
  IF ~QuedanIntentos(i) \/ ds = <<>>
  THEN [resultado |-> ResultadoVacio("Maximo de reintentos alcanzado"), totales |-> t]
  ELSE LET paso == PasoIa(i, Head(ds)) IN
       IF paso.sigue
       THEN EjecutarIa(i + 1, Tail(ds), SumaTokens(t, Head(ds)))
       ELSE [resultado |-> paso.resultado, totales |-> SumaTokens(t, Head(ds))]

\* The outcomes a whole extraction can meet: rate limits and service errors,
\* then one more outcome.
Reintentables == {d \in Desenlaces : d.tipo \in {"rate_limit", "api_error"}}
Guiones ==
  {pre \o <<fin>> :
     pre \in UNION {[1..k -> Reintentables] : k \in 0..MaxRetries}, fin \in Desenlaces}

CeroTokens == [input |-> 0, output |-> 0, cost |-> 0]

\* Every (result, usage added to the counters) a whole extraction can end in.
ResultadosIa == {EjecutarIa(0, ds, CeroTokens) : ds \in Guiones}

\* ia_data = self.analizar_pdf_con_ia(pdf_file); time.sleep(1)
AnalizarPdf ==
  /\ pc = "ia"
  /\ \E r \in ResultadosIa :
       /\ ia_data' = r.resultado
       /\ total_input_tokens' = total_input_tokens + r.totales.input
       /\ total_output_tokens' = total_output_tokens + r.totales.output
       /\ total_cost' = total_cost + r.totales.cost
  /\ pc' = "consolidar"
  /\ UNCHANGED <<archivos, arbol, calculo, senal, memoria, corrida, idx, coords, intento, retorno,
                 traza, historia>>

\* A save whose guard is inverted: it returns when there are results.
EntradaGuardarInvertida(rs, ret) == IF rs = <<>> THEN "guardar_xlsx" ELSE ret

\* Entry of _guardar_resultados over rs: `if not self.resultados: return`.
EntradaGuardar(rs, ret) == IF rs = <<>> THEN ret ELSE "guardar_xlsx"

\* _construir_resultado, append, add the identity, enter the incremental
\* save.  When _construir_resultado raises, the exception leaves procesar
\* and the top level saves what there is and re-raises.
Consolidar ==
  /\ pc = "consolidar"
  /\ IF ConstruirFalla(ia_data)
     THEN /\ pc' = EntradaGuardar(resultados, "abortada")
          /\ retorno' = "abortada"
          /\ UNCHANGED <<resultados, tiendas_procesadas_paths, nuevas>>
     ELSE /\ resultados' = Append(resultados, ConstruirResultado(idx, coords, ia_data))
          /\ tiendas_procesadas_paths' = tiendas_procesadas_paths \cup {RelPath(idx)}
          /\ nuevas' = Append(nuevas, idx)
          /\ pc' = EntradaGuardar(resultados', "bucle")
          /\ retorno' = "bucle"
  /\ coords' = SinCoords
  /\ ia_data' = IaSinDatos
  /\ traza' = <<>>
  /\ UNCHANGED <<archivos, arbol, calculo, senal, totales, errores, corrida, idx, intento,
                 omitidas, iniciadas, persistidas, jsonPrevio>>

\* df.to_excel
GuardarExcel ==
  /\ pc = "guardar_xlsx"
  /\ xlsxFile' = Completo(resultados)
  /\ pc' = "guardar_csv"
  /\ UNCHANGED <<jsonFile, csvFile, errFile, arbol, calculo, senal, totales, memoria, corrida, idx,
                 coords, ia_data, intento, retorno, traza, historia>>

\* df.to_csv
GuardarCsv ==
  /\ pc = "guardar_csv"
  /\ csvFile' = Completo(resultados)
  /\ pc' = "guardar_err"
  /\ UNCHANGED <<jsonFile, xlsxFile, errFile, arbol, calculo, senal, totales, memoria, corrida, idx,
                 coords, ia_data, intento, retorno, traza, historia>>

\* if self.errores: errores_df.to_csv
GuardarErrores ==
  /\ pc = "guardar_err"
  /\ errFile' = IF errores # <<>> THEN Completo(errores) ELSE errFile
  /\ pc' = "guardar_json"
  /\ UNCHANGED <<jsonFile, xlsxFile, csvFile, arbol, calculo, senal, totales, memoria, corrida, idx,
                 coords, ia_data, intento, retorno, traza, historia>>

\* json.dump(self.resultados) into the file opened with 'w'; then back to the
\* caller: the next store, the end of the run, or the re-raise.
GuardarJson ==
  /\ pc = "guardar_json"
  /\ jsonFile' = Completo(resultados)
  /\ persistidas' = persistidas \cup TiendasEn(resultados)
  /\ pc' = retorno
  /\ idx' = IF retorno = "bucle" THEN idx + 1 ELSE idx
  /\ UNCHANGED <<xlsxFile, csvFile, errFile, arbol, calculo, senal, totales, memoria, corrida,
                 coords, ia_data, intento, retorno, traza, omitidas, nuevas,
                 iniciadas, jsonPrevio>>

\* After the loop: _mostrar_resumen_final and the last _guardar_resultados.
Finalizar ==
  /\ pc = "bucle"
  /\ idx > NumTiendas
  /\ pc' = EntradaGuardar(resultados, "hecho")
  /\ retorno' = "hecho"
  /\ UNCHANGED <<archivos, arbol, calculo, senal, totales, memoria, corrida, idx, coords, ia_data,
                 intento, traza, historia>>

EnMarcha ==
  {"bucle", "ia", "consolidar", "guardar_xlsx", "guardar_csv", "guardar_err", "guardar_json"}

\* The memory of a process that no longer runs, and the history of its run.
MemoriaPerdida ==
  /\ resultados' = <<>>
  /\ tiendas_procesadas_paths' = {}
  /\ errores' = <<>>
  /\ total_input_tokens' = 0
  /\ total_output_tokens' = 0
  /\ total_cost' = 0
  /\ idx' = 1
  /\ coords' = SinCoords
  /\ ia_data' = IaSinDatos
  /\ intento' = 0
  /\ retorno' = "bucle"
  /\ traza' = <<>>
  /\ omitidas' = {}
  /\ nuevas' = <<>>
  /\ senal' = FALSE

\* Abrupt termination (kill, power loss) between two steps.
Caida ==
  /\ pc \in EnMarcha
  /\ pc' = "caida"
  /\ MemoriaPerdida
  /\ UNCHANGED <<archivos, arbol, calculo, corrida, iniciadas, persistidas, jsonPrevio>>

\* Abrupt termination in the middle of a file write: each file is opened for
\* writing, which truncates it, and is left with a part of the new content.
CaidaEscribiendo ==
  /\ pc \in {"guardar_xlsx", "guardar_csv", "guardar_err", "guardar_json"}
  /\ pc = "guardar_err" => errores # <<>>
  /\ xlsxFile' = IF pc = "guardar_xlsx" THEN Truncado ELSE xlsxFile
  /\ csvFile' = IF pc = "guardar_csv" THEN Truncado ELSE csvFile
  /\ errFile' = IF pc = "guardar_err" THEN Truncado ELSE errFile
  /\ jsonFile' = IF pc = "guardar_json" THEN Truncado ELSE jsonFile
  /\ pc' = "caida"
  /\ MemoriaPerdida
  /\ UNCHANGED <<arbol, calculo, corrida, iniciadas, persistidas, jsonPrevio>>

Next ==
  \/ Arrancar
  \/ Omitir
  \/ BuscarYCoordenadas
  \/ AnalizarPdf
  \/ Consolidar
  \/ GuardarExcel
  \/ GuardarCsv
  \/ GuardarErrores
  \/ GuardarJson
  \/ Finalizar
  \/ Caida
  \/ CaidaEscribiendo

Spec == Init /\ [][Next]_vars

\* ------------------------------------- the document extractor, step by step
\* One call of analizar_pdf_con_ia on the document of the first store, entered
\* with the usage counters left by earlier calls.
InitIA ==
  /\ hasKmz = [i \in Tiendas |-> TRUE]
  /\ hasPdf = [i \in Tiendas |-> TRUE]
  /\ jsonFile = Ausente
  /\ xlsxFile = Ausente
  /\ csvFile = Ausente
  /\ errFile = Ausente
  /\ corrida = 1
  /\ pc = "ia"
  /\ resultados = <<>>
  /\ tiendas_procesadas_paths = {}
  /\ errores = <<>>
  /\ \E t \in {SumaTokens([input |-> 0, output |-> 0, cost |-> 0], d) : d \in Desenlaces} :
       /\ total_input_tokens = t.input
       /\ total_output_tokens = t.output
       /\ total_cost = t.cost
  /\ idx = 1
  /\ coords \in ResultadosKmz
  /\ ia_data = IaSinDatos
  /\ intento = 0
  /\ retorno = "bucle"
  /\ traza = <<>>
  /\ omitidas = {}
  /\ nuevas = <<>>
  /\ iniciadas = {1}
  /\ persistidas = {}
  /\ jsonPrevio = None
  /\ senal = FALSE
  /\ rootExists = TRUE
  /\ entrada = <<>>
  /\ salida = <<>>

NextIA ==
  \/ IaIntento
  \/ IaAgotado

SpecIA == InitIA /\ [][NextIA]_vars

\* ------------------------------------- startup over any persisted file
\* The root paths through which an earlier run may have reached the tree:
\* the present one, or another absolute prefix with the same folder name.
VistasPrevias == {RootPath, <<"montaje", "info">>}

\* The record that a run through root path raiz persisted for store i:
\* Archivo_KMZ and Archivo_PDF are str() of the paths found by glob under
\* that root.
RegistroDe(raiz, i) ==
  LET dir == raiz \o <<ArbolTiendas[i].anio, ArbolTiendas[i].ciudad,
                       ArbolTiendas[i].carpeta>>
      c == IF hasKmz[i] THEN [lat |-> Some(194326), lon |-> Some(-991332)]
           ELSE SinCoords
      ia == IF hasPdf[i]
            THEN ResultadoOk("pobladas", CHOOSE u \in UsageVals : TRUE)
            ELSE ResultadoVacio("PDF no encontrado")
  IN  [ConstruirResultado(i, c, ia) EXCEPT
         !.Archivo_KMZ = IF hasKmz[i] THEN Some(dir \o <<"ubicacion.kmz">>) ELSE None,
         !.Archivo_PDF = IF hasPdf[i] THEN Some(dir \o <<"reporte.pdf">>) ELSE None]

\* The collection persisted by a run that completed the first n stores.
SalidaPrevia(raiz, n) == [k \in 1..n |-> RegistroDe(raiz, k)]

\* The process is started over a JSON file of any content: absent, unreadable
\* or no JSON, JSON that is no list, a list with an element that is no
\* object, or the output of an earlier run through some root path.
InitArranque ==
  /\ hasKmz \in [Tiendas -> BOOLEAN]
  /\ hasPdf \in [Tiendas -> BOOLEAN]
  /\ \A i \in Tiendas : \A j \in Tiendas :
       i < j => Dotacion(hasKmz[i], hasPdf[i]) <= Dotacion(hasKmz[j], hasPdf[j])
  /\ jsonFile \in {Ausente, Truncado, NoLista, ListaAjena}
                    \cup {Completo(SalidaPrevia(raiz, n)) :
                            raiz \in VistasPrevias, n \in 0..NumTiendas}
  /\ xlsxFile = Ausente
  /\ csvFile = Ausente
  /\ errFile = Ausente
  /\ corrida = 0
  /\ pc = "inicio"
  /\ resultados = <<>>
  /\ tiendas_procesadas_paths = {}
  /\ errores = <<>>
  /\ total_input_tokens = 0
  /\ total_output_tokens = 0
  /\ total_cost = 0
  /\ idx = 1
  /\ coords = SinCoords
  /\ ia_data = IaSinDatos
  /\ intento = 0
  /\ retorno = "bucle"
  /\ traza = <<>>
  /\ omitidas = {}
  /\ nuevas = <<>>
  /\ iniciadas = {}
  /\ persistidas = {}
  /\ jsonPrevio = None
  /\ senal = FALSE
  /\ rootExists = TRUE
  /\ entrada = <<>>
  /\ salida = <<>>

\* TiendaProcessor(...) raises in __init__: the process ends with a traceback
\* before procesar is called (the constructor call at lines 724-728 is
\* outside the try of __main__).
ArranqueFallido ==
  /\ pc \in {"inicio", "hecho", "caida", "abortada"}
  /\ corrida < MaxCorridas
  /\ InicioFalla
  /\ corrida' = corrida + 1
  /\ pc' = "fallo_inicio"
  /\ UNCHANGED <<archivos, arbol, calculo, senal, totales, memoria, idx, coords, ia_data, intento,
                 retorno, traza, historia>>

NextArranque ==
  \/ Arrancar
  \/ ArranqueFallido
  \/ Omitir
  \/ BuscarYCoordenadas

SpecArranque == InitArranque /\ [][NextArranque]_vars

\* --------------------------------------------- the external interrupt
\* The statements of procesar run inside the try of __main__, whose
\* `except KeyboardInterrupt` calls _guardar_resultados once and lets the
\* process end.  One interrupt per process: the handler itself is not
\* protected.
Interrumpible == pc \in EnMarcha /\ retorno \in {"bucle", "hecho"} /\ ~senal

\* The stack unwinds to __main__: the locals of the store in progress are
\* gone, self.resultados is what was appended so far.
AlManejador ==
  /\ senal' = TRUE
  /\ retorno' = "interrumpida"
  /\ pc' = EntradaGuardar(resultados, "interrumpida")
  /\ coords' = SinCoords
  /\ ia_data' = IaSinDatos
  /\ intento' = 0
  /\ traza' = <<>>

\* KeyboardInterrupt between two steps of the run.
Interrumpir ==
  /\ Interrumpible
  /\ AlManejador
  /\ UNCHANGED <<archivos, arbol, calculo, totales, memoria, corrida, idx, historia>>

\* KeyboardInterrupt in the middle of a file write of _guardar_resultados:
\* the file was opened for writing and holds a part of the new content.
InterrumpirEscribiendo ==
  /\ Interrumpible
  /\ pc \in {"guardar_xlsx", "guardar_csv", "guardar_err", "guardar_json"}
  /\ pc = "guardar_err" => errores # <<>>
  /\ xlsxFile' = IF pc = "guardar_xlsx" THEN Truncado ELSE xlsxFile
  /\ csvFile' = IF pc = "guardar_csv" THEN Truncado ELSE csvFile
  /\ errFile' = IF pc = "guardar_err" THEN Truncado ELSE errFile
  /\ jsonFile' = IF pc = "guardar_json" THEN Truncado ELSE jsonFile
  /\ AlManejador
  /\ UNCHANGED <<arbol, calculo, totales, memoria, corrida, idx, historia>>

\* KeyboardInterrupt inside the repair block of analizar_pdf_con_ia (lines
\* 413-425), entered for a reply that is no JSON and holds a brace: the bare
\* `except:` of line 426 catches it, the function returns the "Respuesta
\* invalida" result and the main loop goes on.  The reply had already been
\* added to the counters (lines 377-382).
SenalTragada ==
  /\ Interrumpible
  /\ pc = "ia"
  /\ \E d \in Desenlaces :
       /\ d.tipo = "respuesta"
       /\ d.contenido \in {"reparable", "reparable_mal_tipo"}
       /\ LET t == SumaTokens(TotalesActuales, d)
          IN  /\ total_input_tokens' = t.input
              /\ total_output_tokens' = t.output
              /\ total_cost' = t.cost
  /\ ia_data' = ResultadoVacio("Respuesta invalida de la IA (JSON Error). Raw: content[:100]...")
  /\ pc' = "consolidar"
  /\ senal' = TRUE
  /\ UNCHANGED <<archivos, arbol, calculo, memoria, corrida, idx, coords, intento, retorno,
                 traza, historia>>

NextSenal ==
  \/ Arrancar
  \/ Omitir
  \/ BuscarYCoordenadas
  \/ AnalizarPdf
  \/ Consolidar
  \/ GuardarExcel
  \/ GuardarCsv
  \/ GuardarErrores
  \/ GuardarJson
  \/ Finalizar
  \/ Interrumpir
  \/ InterrumpirEscribiendo
  \/ SenalTragada

SpecSenal == Init /\ [][NextSenal]_vars


\* ===================================================================
\* Properties of the pipeline (Spec)
\* ===================================================================
Rango(f) == {f[k] : k \in 1..Len(f)}

SinDuplicados(rs) ==
  \A j \in 1..Len(rs) : \A k \in 1..Len(rs) : j # k => TiendaDe(rs[j]) # TiendaDe(rs[k])

\* C1: idempotent resume.  When a run completes and the run before it
\* completed too, over the same tree and root, the persisted collection is
\* the one the earlier run left, and no store has two records in it.
C1_ReanudacionIdempotente ==
  (pc = "hecho" /\ jsonPrevio # None) =>
    /\ jsonFile = jsonPrevio[1]
    /\ SinDuplicados(jsonFile.datos)

\* C2: a crash during a persistence pass loses only the in-flight store.  In
\* a running process the loaded and accumulated results hold a record of
\* every store that a completed JSON dump of any earlier pass had written.
C2_CaidaSoloPierdeEnCurso ==
  pc \in EnMarcha => persistidas \subseteq TiendasEn(resultados)

\* C3: a store whose identity is in the checkpoint set when the driver
\* reaches it is skipped.  The step of the driver on it starts no
\* extraction, appends no record and no error entry, writes no file, and
\* moves the loop to the next store.
C3_TiendaEnCheckpointSeOmite ==
  [][ ( /\ pc = "bucle"
        /\ idx <= NumTiendas
        /\ RelPath(idx) \in tiendas_procesadas_paths
        /\ pc' # "caida" )
      => ( /\ pc' = "bucle"
           /\ idx' = idx + 1
           /\ UNCHANGED <<resultados, errores, archivos, coords, ia_data, totales,
                          nuevas, iniciadas>> ) ]_vars

\* A store has been skipped by a run that found it in the checkpoint.
C3_Testigo ==
  /\ omitidas # {}
  /\ \A i \in omitidas : RelPath(i) \in tiendas_procesadas_paths

\* C4: after every store that a run newly processed, and until the work on
\* the next store is consolidated, the three result files hold exactly the
\* in-memory result list, whose last record is that store's.
C4_GuardadoTrasCadaTienda ==
  (pc \in {"bucle", "ia", "consolidar"} /\ nuevas # <<>>) =>
    /\ jsonFile = Completo(resultados)
    /\ xlsxFile = Completo(resultados)
    /\ csvFile = Completo(resultados)
    /\ resultados # <<>>
    /\ TiendaDe(resultados[Len(resultados)]) = nuevas[Len(nuevas)]

\* The document extraction of the second store is about to run after the
\* first store was newly processed, with an error result or without.
C4_Testigo ==
  /\ pc = "ia"
  /\ idx = 2
  /\ nuevas = <<1>>
  /\ resultados[Len(resultados)].Error_Procesamiento # None

\* C5: after an abrupt termination the three result files hold the same
\* collection, and it lacks at most one of the stores whose processing had
\* started.
C5_EstadoConsistenteTrasCaida ==
  pc = "caida" =>
    /\ xlsxFile = jsonFile
    /\ csvFile = jsonFile
    /\ Cardinality(iniciadas \ TiendasEn(jsonFile.datos)) <= 1

\* C6: no per-store error aborts the run.  Whatever the two extractions of a
\* store returned, the consolidation step appends one record for the store
\* and the run goes on with the loop.
C6_NingunErrorPorTiendaAborta ==
  [][ (pc = "consolidar" /\ pc' # "caida")
      => ( /\ Len(resultados') = Len(resultados) + 1
           /\ retorno' = "bucle"
           /\ pc' \notin {"abortada"} ) ]_vars

\* ===================================================================
\* Properties of the document extractor (SpecIA)
\* ===================================================================
EsLlamada(e) == e.ev = "llamada"
Llamadas(tr) == SelectSeq(tr, EsLlamada)
NumLlamadas(tr) == Len(Llamadas(tr))

\* The extractor has returned a result without error after calls that all
\* ended in a rate-limit signal but the last.
ExitoTrasRateLimits ==
  /\ pc = "consolidar"
  /\ traza # <<>>
  /\ ia_data.error = None
  /\ \A p \in 1..(Len(traza) - 1) : EsLlamada(traza[p]) => traza[p].res = "rate_limit"

\* C7: backoff schedule.  When the first k calls each return a rate-limit
\* signal and call k+1 succeeds, the events of the extraction are: call,
\* sleep 30, call, sleep 60, ..., sleep 30k, call; and the usage attached to
\* the result is the usage of the last call.
C7_EsquemaDeBackoff ==
  ExitoTrasRateLimits =>
    LET n == Len(traza)
        k == (n - 1) \div 2
    IN  /\ n = 2 * k + 1
        /\ k + 1 <= MaxRetries
        /\ \A j \in 1..k :
             /\ traza[2 * j - 1].ev = "llamada"
             /\ traza[2 * j - 1].res = "rate_limit"
             /\ traza[2 * j] = Sleep(30 * j)
        /\ traza[n].ev = "llamada"
        /\ traza[n].usage # None
        /\ ia_data.usage =
             Some([prompt_tokens |-> traza[n].usage[1].prompt_tokens,
                   completion_tokens |-> traza[n].usage[1].completion_tokens,
                   cost_usd |-> CostoLlamada(traza[n].usage[1])])

\* Two rate-limit signals, then a reply that parses, in a process whose
\* counters already hold the usage of an earlier call.
C7_Testigo ==
  /\ ExitoTrasRateLimits
  /\ Len(traza) = 5
  /\ traza[2] = Sleep(30)
  /\ traza[4] = Sleep(60)
  /\ total_input_tokens > traza[5].usage[1].prompt_tokens

\* C8: the extractor ends with a result after at most max_retries calls.  It
\* never makes more than max_retries calls nor more than one sleep per call;
\* when it has returned, the result carries a parsed reply or an error; and
\* when the last allowed call ended in a rate-limit signal or a service
\* error, the result is the empty result with its error field set.
C8_TerminaConResultado ==
  /\ NumLlamadas(traza) <= MaxRetries
  /\ Len(traza) <= 2 * MaxRetries
  /\ intento <= MaxRetries
  /\ pc = "consolidar" =>
       /\ ia_data.error # None \/ ia_data.usage # None
       /\ ( /\ NumLlamadas(traza) = MaxRetries
            /\ Llamadas(traza)[MaxRetries].res \in {"rate_limit", "api_error"} )
          => (ia_data.error # None /\ ia_data.secciones = "nulas")

\* Every allowed call ended in a rate-limit signal and the extractor returned
\* the error result.
C8_Testigo ==
  /\ pc = "consolidar"
  /\ NumLlamadas(traza) = MaxRetries
  /\ \A p \in 1..Len(traza) : EsLlamada(traza[p]) => traza[p].res = "rate_limit"
  /\ ia_data = ResultadoVacio("Maximo de reintentos alcanzado")

\* C9: a service error at an attempt that is not the last is followed by a
\* sleep of 5 seconds and then by another attempt; a service error at the
\* last attempt is followed by no sleep, and the extractor returns the empty
\* result whose error field holds the error.
C9_ErrorDeServicio ==
  \A p \in 1..Len(traza) :
    (EsLlamada(traza[p]) /\ traza[p].res = "api_error") =>
      IF NumLlamadas(SubSeq(traza, 1, p)) < MaxRetries
      THEN /\ p < Len(traza)
           /\ traza[p + 1] = Sleep(5)
           /\ IF p + 1 = Len(traza)
              THEN pc = "ia" /\ intento < MaxRetries
              ELSE EsLlamada(traza[p + 2])
      ELSE /\ p = Len(traza)
           /\ pc = "consolidar"
           /\ ia_data = ResultadoVacio("str(e)")

\* A service error was retried after 5 seconds and the last attempt ended in
\* a service error too.
C9_Testigo ==
  /\ pc = "consolidar"
  /\ NumLlamadas(traza) = MaxRetries
  /\ traza[Len(traza)].res = "api_error"
  /\ \E p \in 1..(Len(traza) - 1) : traza[p].res = "api_error" /\ traza[p + 1] = Sleep(5)

\* C10: every rate-limit backoff sleep is followed by a retry.  After the
\* sleep that follows a rate-limit signal, the extractor makes another call.
C10_BackoffSeguidoDeReintento ==
  \A p \in 2..Len(traza) :
    (traza[p].ev = "sleep" /\ traza[p - 1].res = "rate_limit") =>
      IF p = Len(traza)
      THEN pc = "ia" /\ intento < MaxRetries
      ELSE EsLlamada(traza[p + 1])


\* ===================================================================
\* Properties of the error list and the error report (Spec)
\* ===================================================================
\* The error list holds an entry for the folder of store i.
TieneErrorEntry(i) ==
  \E k \in 1..Len(errores) : errores[k].tienda = ArbolTiendas[i].carpeta

\* C11: graceful degradation.  When the geodata file of the store in
\* progress is present and its extraction returned no coordinates, and the
\* store has a document, an ErrorEntry for the store is in the error list.
C11_FallaDeCoordenadasRegistrada ==
  ( /\ pc \in {"ia", "consolidar"}
    /\ hasKmz[idx]
    /\ hasPdf[idx]
    /\ coords = SinCoords )
  => TieneErrorEntry(idx)

\* C12: every store whose document extraction ended in an error has an
\* ErrorEntry.  When the extraction of the document of the store in progress
\* has returned a result with its error field set, the error list holds an
\* entry for the store.
C12_ErrorDeExtraccionRegistrado ==
  ( /\ pc = "consolidar"
    /\ hasPdf[idx]
    /\ ia_data.error # None )
  => TieneErrorEntry(idx)

\* C13: ErrorEntry values are never removed.  Every completed rewrite of the
\* error report leaves in it every entry that the report held before.
C13_ErroresNuncaSeQuitan ==
  [][ (errFile.estado = "completo" /\ errFile'.estado = "completo")
      => Rango(errFile.datos) \subseteq Rango(errFile'.datos) ]_vars

\* C14: a store folder without geodata file or without document is not
\* fatal.  When the work on such a store is consolidated, the error list
\* holds one entry per missing file, the extractor of a missing file was not
\* called, one record is appended for the store, the save pass that follows
\* returns to the loop, and the run is not aborted.
C14_ArchivoFaltanteNoEsFatal ==
  [][ ( /\ pc = "consolidar"
        /\ ~hasKmz[idx] \/ ~hasPdf[idx]
        /\ pc' # "caida" )
      => ( /\ ~hasKmz[idx] =>
                /\ [tienda |-> ArbolTiendas[idx].carpeta, error |-> "KMZ faltante"]
                     \in Rango(errores)
                /\ coords = SinCoords
           /\ ~hasPdf[idx] =>
                /\ [tienda |-> ArbolTiendas[idx].carpeta, error |-> "PDF faltante"]
                     \in Rango(errores)
                /\ ia_data.usage = None
                /\ ia_data.error = Some("PDF no encontrado")
           /\ Len(resultados') = Len(resultados) + 1
           /\ pc' = "guardar_xlsx"
           /\ retorno' = "bucle" ) ]_vars


\* ===================================================================
\* Properties of the startup (SpecArranque)
\* ===================================================================
\* A loaded record that names a source file.
ConArchivo(r) == r.Archivo_PDF # None \/ r.Archivo_KMZ # None

\* C15: startup never fails because of the persisted result file.  Whatever
\* the JSON file holds, a started process has reached the main loop with an
\* empty history or the history of the file.
C15_ArranqueNuncaFalla ==
  corrida >= 1 =>
    /\ pc # "fallo_inicio"
    /\ resultados = <<>> \/ resultados = jsonFile.datos

\* C16: checkpoint reconstruction is independent of the root path of the run
\* that persisted the results.  After startup the identity of every loaded
\* record that names a source file is in the checkpoint set under the
\* identity the traversal computes, and the store of no such record is
\* processed again.
C16_IdentidadIndependienteDeLaVista ==
  (corrida >= 1 /\ pc # "fallo_inicio") =>
    \A k \in 1..Len(resultados) :
      ConArchivo(resultados[k]) =>
        /\ RelPath(TiendaDe(resultados[k])) \in tiendas_procesadas_paths
        /\ TiendaDe(resultados[k]) \notin iniciadas


\* ===================================================================
\* Properties of the interrupt handling (SpecSenal)
\* ===================================================================
\* C17: an interrupt that arrives during the main loop is caught at the top
\* level, the accumulated results are flushed and the run terminates.  Once
\* the interrupt has been raised the process is in the flush of the handler
\* or has ended; when it has ended, the three result files hold exactly the
\* records appended so far, one per store whose aggregation completed.
C17_InterrupcionVaciaYTermina ==
  senal =>
    /\ retorno = "interrumpida"
    /\ pc \in {"guardar_xlsx", "guardar_csv", "guardar_err", "guardar_json",
               "interrumpida"}
    /\ pc = "interrumpida" =>
         /\ CargarCheckpoint = resultados
         /\ resultados # <<>> =>
              /\ jsonFile = Completo(resultados)
              /\ xlsxFile = Completo(resultados)
              /\ csvFile = Completo(resultados)
         /\ \A k \in 1..Len(nuevas) : nuevas[k] \in TiendasEn(resultados)

\* ===================================================================
\* Properties of the completed identities (Spec)
\* ===================================================================
\* C18: the set of completed stores never loses an element.  Every store
\* that a completed write of the JSON file has recorded, in this run or an
\* earlier one, is in the collection the JSON file holds after any later
\* completed write.
C18_IdentidadesNuncaSePierden ==
  jsonFile.estado = "completo" => persistidas \subseteq TiendasEn(jsonFile.datos)

\* Within a run the checkpoint set and the collection only grow, a start
\* over a JSON file that loads takes over every record of it, and every
\* completed write of the JSON file holds the whole collection.
CreceDentroDeLaCorrida ==
  [][ /\ (pc \in EnMarcha /\ pc' # "caida") =>
           /\ tiendas_procesadas_paths \subseteq tiendas_procesadas_paths'
           /\ TiendasEn(resultados) \subseteq TiendasEn(resultados')
      /\ (pc \notin EnMarcha /\ pc' = "bucle" /\ jsonFile.estado = "completo") =>
           TiendasEn(jsonFile.datos) \subseteq TiendasEn(resultados')
      /\ (jsonFile' # jsonFile /\ jsonFile'.estado = "completo") =>
           TiendasEn(resultados) \subseteq TiendasEn(jsonFile'.datos) ]_vars


\* ===================================================================
\* Properties of the usage counters and of the repair (SpecIA)
\* ===================================================================
\* The usage of the reply that a step of the extractor received, zero when
\* the step received none.
UsoRecibido ==
  LET recibidas == Llamadas(SubSeq(traza', Len(traza) + 1, Len(traza')))
  IN  IF recibidas # <<>> /\ recibidas[1].usage # None
      THEN recibidas[1].usage[1]
      ELSE [prompt_tokens |-> 0, completion_tokens |-> 0]

\* C19, as stated: the totals are fed by successful calls only.  A step of
\* the extractor changes each total by the usage attached to the result it
\* returns without error, and by nothing otherwise.
C19_TotalesSoloDeExitos ==
  [][ LET exito == pc = "ia" /\ pc' = "consolidar" /\ ia_data'.error = None
      IN  /\ total_input_tokens' - total_input_tokens =
               IF exito THEN ia_data'.usage[1].prompt_tokens ELSE 0
          /\ total_output_tokens' - total_output_tokens =
               IF exito THEN ia_data'.usage[1].completion_tokens ELSE 0
          /\ total_cost' - total_cost =
               IF exito THEN ia_data'.usage[1].cost_usd ELSE 0 ]_vars

\* C19, amended: the totals are fed by every call that returned a reply.  A
\* step of the extractor changes each total by the usage of the reply it
\* received, whether or not the reply could be read, and a result returned
\* with usage attached carries the usage of that reply.
C19_TotalesDeTodaRespuesta ==
  [][ /\ total_input_tokens' = total_input_tokens + UsoRecibido.prompt_tokens
      /\ total_output_tokens' = total_output_tokens + UsoRecibido.completion_tokens
      /\ total_cost' = total_cost + CostoLlamada(UsoRecibido)
      /\ (pc = "ia" /\ pc' = "consolidar" /\ ia_data'.usage # None) =>
           /\ ia_data'.usage[1].prompt_tokens = UsoRecibido.prompt_tokens
           /\ ia_data'.usage[1].completion_tokens = UsoRecibido.completion_tokens
           /\ ia_data'.usage[1].cost_usd = CostoLlamada(UsoRecibido) ]_vars

\* The extractor has returned an error result for a reply that was counted.
C19_Testigo ==
  /\ pc = "consolidar"
  /\ traza # <<>>
  /\ traza[Len(traza)].usage # None
  /\ ia_data.error # None
  /\ ia_data.usage = None
  /\ total_input_tokens >= traza[Len(traza)].usage[1].prompt_tokens

EnReposo ==
  /\ hasKmz = [i \in Tiendas |-> TRUE]
  /\ hasPdf = [i \in Tiendas |-> TRUE]
  /\ rootExists = TRUE
  /\ jsonFile = Ausente
  /\ xlsxFile = Ausente
  /\ csvFile = Ausente
  /\ errFile = Ausente
  /\ corrida = 0
  /\ resultados = <<>>
  /\ tiendas_procesadas_paths = {}
  /\ errores = <<>>
  /\ total_input_tokens = 0
  /\ total_output_tokens = 0
  /\ total_cost = 0
  /\ idx = 1
  /\ coords = SinCoords
  /\ ia_data = IaSinDatos
  /\ intento = 0
  /\ retorno = "bucle"
  /\ traza = <<>>
  /\ omitidas = {}
  /\ nuevas = <<>>
  /\ iniciadas = {}
  /\ persistidas = {}
  /\ jsonPrevio = None
  /\ senal = FALSE

\* ------------------------------------ _construir_resultado, in detail
\* The sections of the reply that _construir_resultado reads as objects;
\* propiedades_indice is nested in caracterizacion_suelo.
SeccionesObjeto ==
  {"identificacion_proyecto", "exploracion_campo", "caracterizacion_suelo",
   "propiedades_indice", "cimentacion_recomendada", "analisis_sismico"}

\* What the reply holds under the key of a section: nothing ("omitida"), null
\* or another falsy value ("nula"), an object ("objeto"), or a non-empty
\* string or list ("mal_tipo").
Formas == {"omitida", "nula", "objeto", "mal_tipo"}

\* The values of alternativas_cimentacion_analizadas: as above, with the list
\* of alternative objects in the order of the reply.
ListasDeAlternativas ==
  {<<>>, <<"zapatas">>, <<"zapatas", "losa">>, <<"losa", "zapatas">>}
FormasDeAlternativas ==
  {[forma |-> f, elems |-> <<>>] : f \in {"omitida", "nula", "mal_tipo"}}
  \cup {[forma |-> "lista", elems |-> l] : l \in ListasDeAlternativas}

\* The replies the aggregator is given.
RespuestasIa ==
  [secciones : [SeccionesObjeto -> Formas], alternativas : FormasDeAlternativas]

\* ia_data.get(k, {}): null is not replaced.
GetConDefecto(f) == IF f = "omitida" THEN "objeto_vacio" ELSE f

\* ia_data.get(k) or {}
ODefecto(f) == IF f \in {"omitida", "nula"} THEN "objeto_vacio" ELSE f

\* The value bound to the local of section s (lines 609-617).
LocalDe(resp, s) ==
  IF s = "propiedades_indice"
  THEN IF ODefecto(resp.secciones["caracterizacion_suelo"]) = "objeto"
       THEN ODefecto(resp.secciones[s])
       ELSE "objeto_vacio"
  ELSE ODefecto(resp.secciones[s])

\* .get on a local that is no dict raises AttributeError.
LocalFalla(resp, s) ==
  \/ LocalDe(resp, s) \in {"mal_tipo", "nula"}
  \/ s = "propiedades_indice"
       /\ ODefecto(resp.secciones["caracterizacion_suelo"]) \in {"mal_tipo", "nula"}

\* json.dumps(v, ensure_ascii=False): a text, not the value.
JsonDumps(v) == [tipo |-> "texto", de |-> v]
\* A value kept as nested JSON.
Anidado(v) == [tipo |-> "valor", de |-> v]

\* alternativas = ia_data.get(...) or []; the text of json.dumps if truthy.
AlternativasJson(resp) ==
  CASE resp.alternativas.forma = "lista" /\ resp.alternativas.elems # <<>> ->
         Some(JsonDumps(resp.alternativas.elems))
    [] resp.alternativas.forma = "mal_tipo" -> Some(JsonDumps(<<"texto">>))
    [] OTHER -> None

\* _construir_resultado on the reply: it raises, or returns the record whose
\* columns of section s are all None ("nulos") or read from the object.
ConstruirDetalle(resp) ==
  IF \E s \in SeccionesObjeto : LocalFalla(resp, s)
  THEN [raises |-> TRUE, valor |-> None]
  ELSE [raises |-> FALSE,
        valor |-> Some([campos |-> [s \in SeccionesObjeto |->
                                      IF LocalDe(resp, s) = "objeto" THEN "poblados"
                                      ELSE "nulos"],
                        Alternativas_Cimentacion_JSON |-> AlternativasJson(resp)])]

InitAgregador ==
  /\ EnReposo
  /\ pc = "agregar"
  /\ entrada \in RespuestasIa
  /\ salida = <<>>

\* resultado = self._construir_resultado(...); self.resultados.append(resultado)
Agregar ==
  /\ pc = "agregar"
  /\ salida' = ConstruirDetalle(entrada)
  /\ pc' = IF ConstruirDetalle(entrada).raises THEN "abortada" ELSE "agregado"
  /\ UNCHANGED <<archivos, arbol, totales, memoria, corrida, idx, coords, ia_data,
                 intento, retorno, traza, historia, senal, entrada>>

\* _guardar_resultados on the one record: the DataFrame of the records to
\* Excel and CSV, the records themselves to JSON.
GuardarDetalle ==
  /\ pc = "agregado"
  /\ xlsxFile' = Completo(<<salida.valor[1]>>)
  /\ csvFile' = Completo(<<salida.valor[1]>>)
  /\ jsonFile' = Completo(<<salida.valor[1]>>)
  /\ pc' = "guardado"
  /\ UNCHANGED <<errFile, arbol, totales, memoria, corrida, idx, coords, ia_data,
                 intento, retorno, traza, historia, senal, calculo>>

NextAgregador ==
  \/ Agregar
  \/ GuardarDetalle

SpecAgregador == InitAgregador /\ [][NextAgregador]_vars

\* C21: aggregation is total over missing sections.  For every reply whose
\* sections are each omitted, null or an object, the aggregator has not
\* raised, it has returned a record with the columns of every section, and
\* the columns of every omitted or null section (and the alternatives text
\* when the alternatives are omitted or null) are null.
C21_AgregacionTotalSobreFaltantes ==
  ( /\ pc # "agregar"
    /\ \A s \in SeccionesObjeto : entrada.secciones[s] # "mal_tipo" )
  => /\ ~salida.raises
     /\ salida.valor # None
     /\ DOMAIN salida.valor[1].campos = SeccionesObjeto
     /\ \A s \in SeccionesObjeto :
          entrada.secciones[s] \in {"omitida", "nula"}
          => salida.valor[1].campos[s] = "nulos"
     /\ entrada.alternativas.forma \in {"omitida", "nula"}
          => salida.valor[1].Alternativas_Cimentacion_JSON = None

\* A record was built from a reply with an omitted section, a null section
\* and a section that is an object.
C21_Testigo ==
  /\ pc = "agregado"
  /\ ~salida.raises
  /\ entrada.secciones["identificacion_proyecto"] = "omitida"
  /\ entrada.secciones["caracterizacion_suelo"] = "nula"
  /\ entrada.secciones["analisis_sismico"] = "objeto"
  /\ salida.valor[1].campos["analisis_sismico"] = "poblados"
  /\ salida.valor[1].campos["caracterizacion_suelo"] = "nulos"

\* C22: in the JSON form the record keeps its alternatives as a nested list
\* in the order of the reply, and the tabular forms carry them as one text.
\* After the save of a record built from a non-empty list of alternatives,
\* the JSON file holds the list itself and the Excel and CSV files hold its
\* serialization.
C22_AlternativasAnidadasEnJson ==
  ( /\ pc = "guardado"
    /\ entrada.alternativas.forma = "lista"
    /\ entrada.alternativas.elems # <<>> )
  => /\ jsonFile.datos[1].Alternativas_Cimentacion_JSON
          = Some(Anidado(entrada.alternativas.elems))
     /\ xlsxFile.datos[1].Alternativas_Cimentacion_JSON
          = Some(JsonDumps(entrada.alternativas.elems))
     /\ csvFile.datos[1].Alternativas_Cimentacion_JSON
          = Some(JsonDumps(entrada.alternativas.elems))


\* ===================================================================
\* The root directory (SpecRaiz)
\* ===================================================================
\* A start with or without the root directory, over no output or over the
\* output of an earlier run, whose Excel file may have been removed since.
InitRaiz ==
  /\ hasKmz \in [Tiendas -> BOOLEAN]
  /\ hasPdf \in [Tiendas -> BOOLEAN]
  /\ \A i \in Tiendas : \A j \in Tiendas :
       i < j => Dotacion(hasKmz[i], hasPdf[i]) <= Dotacion(hasKmz[j], hasPdf[j])
  /\ rootExists \in BOOLEAN
  /\ jsonFile \in {Ausente} \cup {Completo(SalidaPrevia(RootPath, n)) : n \in Tiendas}
  /\ xlsxFile \in {Ausente, jsonFile}
  /\ csvFile = jsonFile
  /\ errFile = Ausente
  /\ corrida = 0
  /\ pc = "inicio"
  /\ resultados = <<>>
  /\ tiendas_procesadas_paths = {}
  /\ errores = <<>>
  /\ total_input_tokens = 0
  /\ total_output_tokens = 0
  /\ total_cost = 0
  /\ idx = 1
  /\ coords = SinCoords
  /\ ia_data = IaSinDatos
  /\ intento = 0
  /\ retorno = "bucle"
  /\ traza = <<>>
  /\ omitidas = {}
  /\ nuevas = <<>>
  /\ iniciadas = {}
  /\ persistidas = {}
  /\ jsonPrevio = None
  /\ senal = FALSE
  /\ entrada = <<>>
  /\ salida = <<>>

\* __main__, lines 719-721: PATH_INFO does not exist; logger.error and
\* sys.exit(1) before TiendaProcessor is constructed.
SalirSinRaiz ==
  /\ pc = "inicio"
  /\ corrida < MaxCorridas
  /\ ~rootExists
  /\ corrida' = corrida + 1
  /\ pc' = "exit_1"
  /\ UNCHANGED <<archivos, arbol, calculo, totales, memoria, idx, coords, ia_data,
                 intento, retorno, traza, historia, senal>>

\* The root passes the test of __main__ and is gone when procesar tests it
\* (lines 466-468): __init__ has loaded the checkpoint, procesar prints the
\* error and returns, and __main__ ends as after a completed run.
ArrancarSinRaiz ==
  /\ pc = "inicio"
  /\ corrida < MaxCorridas
  /\ rootExists
  /\ ~InicioFalla
  /\ rootExists' = FALSE
  /\ corrida' = corrida + 1
  /\ resultados' = CargarCheckpoint
  /\ tiendas_procesadas_paths' = ReconstruirPaths(CargarCheckpoint)
  /\ pc' = "sin_raiz"
  /\ UNCHANGED <<archivos, hasKmz, hasPdf, calculo, totales, errores, idx, coords,
                 ia_data, intento, retorno, traza, historia, senal>>

NextRaiz ==
  \/ SalirSinRaiz
  \/ ArrancarSinRaiz
  \/ Arrancar
  \/ Omitir
  \/ BuscarYCoordenadas

SpecRaiz == InitRaiz /\ [][NextRaiz]_vars

\* C23: a root directory that does not exist is fatal.  When the run has
\* ended for want of the root, no store was processed, the process has
\* ended with an error status, and the results accumulated in memory have
\* been written out.
C23_RaizAusenteEsFatalConVolcado ==
  pc \in {"exit_1", "sin_raiz"} =>
    /\ iniciadas = {}
    /\ pc = "exit_1"
    /\ resultados # <<>> => xlsxFile = Completo(resultados)


\* ===================================================================
\* Store identities over the whole hierarchy (SpecIdentidad)
\* ===================================================================
\* Every leaf folder of the hierarchy.
Carpetas == 1..Len(ArbolTiendas)

\* A running process with an empty checkpoint set, its loop at any folder.
InitIdentidad ==
  /\ EnReposo
  /\ pc = "identidad"
  /\ entrada \in Carpetas
  /\ salida = {}

\* The loop reaches folder i (lines 504-513).
SituarEn ==
  /\ pc = "identidad"
  /\ \E i \in Carpetas : entrada' = i
  /\ UNCHANGED <<archivos, arbol, totales, memoria, corrida, pc, idx, coords, ia_data,
                 intento, retorno, traza, historia, senal, salida>>

\* The folder the loop is at is not in the checkpoint set: it is processed
\* and its identity is added (lines 516, 553-554).
RegistrarIdentidad ==
  /\ pc = "identidad"
  /\ ~YaProcesada(entrada)
  /\ tiendas_procesadas_paths' = tiendas_procesadas_paths \cup {RelPath(entrada)}
  /\ salida' = salida \cup {entrada}
  /\ UNCHANGED <<archivos, arbol, totales, resultados, errores, corrida, pc, idx,
                 coords, ia_data, intento, retorno, traza, historia, senal, entrada>>

NextIdentidad ==
  \/ SituarEn
  \/ RegistrarIdentidad

SpecIdentidad == InitIdentidad /\ [][NextIdentidad]_vars

\* C24: StoreIdentity is injective over the hierarchy.  Two distinct folders
\* never have the same identity, and the folder the loop is at is found in
\* the checkpoint set exactly when that folder itself was processed,
\* whatever folders of the same name were processed under other cities or
\* years.
C24_IdentidadInyectiva ==
  /\ \A i \in Carpetas : \A j \in Carpetas : i # j => RelPath(i) # RelPath(j)
  /\ RelPath(entrada) \in tiendas_procesadas_paths <=> entrada \in salida
  /\ Cardinality(tiendas_procesadas_paths) = Cardinality(salida)

\* Two folders of the same name under different years: one was processed,
\* the loop is at the other, which is not in the checkpoint set.
C24_Testigo ==
  /\ pc = "identidad"
  /\ salida = {1}
  /\ entrada = 3
  /\ ArbolTiendas[1].carpeta = ArbolTiendas[3].carpeta
  /\ RelPath(3) \notin tiendas_procesadas_paths


\* ===================================================================
\* The coordinate extractor (SpecKmz)
\* ===================================================================
\* extraer_coordenadas_kmz of procesar_tiendas.py; the function
\* extraer_coordenadas_kmz_refinado of refinar_kmz.py has the same steps
\* under one `except Exception`.
\*
\* A comma component of a point: a text that float() reads as the number
\* val (in 10^-4 degrees), or a text on which float() raises ValueError.
Num(v) == [num |-> TRUE, val |-> v]
NoNum == [num |-> FALSE, val |-> 0]

MaxElementos == 2

\* -99.1332, and 360.0000, which is no latitude and no longitude.
Componentes == {Num(-991332), Num(3600000), NoNum}

\* first_point.split(','): one to three components.
Puntos ==
  {<<a>> : a \in Componentes}
  \cup {<<a, b>> : a \in Componentes, b \in Componentes}
  \cup {<<a, b, Num(0)>> : a \in Componentes, b \in Componentes}

\* coord_elem.text.strip().split(): no point (no text, or blanks only), one
\* point, or a point followed by another.
Textos ==
  {<<>>}
  \cup {<<p>> : p \in Puntos}
  \cup {<<p, q>> : p \in Puntos, q \in {<<Num(3600000), Num(-991332)>>, <<NoNum>>}}

ListasDeElementos ==
  UNION {[1..n -> Textos] : n \in 0..MaxElementos}

\* The file given to the extractor: no zip archive, an archive without a
\* *.kml member, a member that is no XML, a file that cannot be read
\* (OSError and the like), or a KML document with its coordinates elements
\* in document order.
ArchivosKmz ==
  {[tipo |-> t, elementos |-> <<>>] :
     t \in {"zip_invalido", "sin_kml", "xml_invalido", "error_lectura"}}
  \cup {[tipo |-> "kml", elementos |-> es] : es \in ListasDeElementos}

\* The exception that reading a file of the kind raises.
ExcepcionDe(tipo) ==
  CASE tipo = "zip_invalido" -> "BadZipFile"
    [] tipo = "xml_invalido" -> "ParseError"
    [] tipo = "error_lectura" -> "Exception"
    [] OTHER -> "ninguna"

\* Handlers for the two named exceptions only.
AtrapaSoloConocidas(exc) == exc \in {"BadZipFile", "ParseError"}

\* except zipfile.BadZipFile / except ET.ParseError / except Exception
Atrapa(exc) == exc \in {"BadZipFile", "ParseError", "Exception"}

\* A point that is taken only inside the ranges of latitude and longitude.
AceptaPuntoEnRango(parts) ==
  /\ Len(parts) >= 2
  /\ parts[1].num /\ parts[2].num
  /\ parts[1].val >= -1800000 /\ parts[1].val <= 1800000
  /\ parts[2].val >= -900000 /\ parts[2].val <= 900000

\* len(parts) >= 2 and float() reads parts[0] and parts[1].
AceptaPunto(parts) ==
  /\ Len(parts) >= 2
  /\ parts[1].num /\ parts[2].num

\* The pair in the order of the source.
LatLonSinInvertir(parts) ==
  [raises |-> FALSE, lat |-> Some(parts[1].val), lon |-> Some(parts[2].val)]

\* lon = float(parts[0]); lat = float(parts[1]); return lat, lon
LatLon(parts) ==
  [raises |-> FALSE, lat |-> Some(parts[2].val), lon |-> Some(parts[1].val)]

ParAusente == [raises |-> FALSE, lat |-> None, lon |-> None]

\* The loop over all_coords from element k on.
RECURSIVE BuscarPunto(_, _)
BuscarPunto(es, k) ==
  IF k > Len(es) THEN ParAusente
  ELSE IF es[k] # <<>> /\ AceptaPunto(es[k][1]) THEN LatLon(es[k][1])
  ELSE BuscarPunto(es, k + 1)

ExtraerCoordenadasKmz(kmz) ==
  CASE kmz.tipo = "kml" -> BuscarPunto(kmz.elementos, 1)
    [] kmz.tipo = "sin_kml" -> ParAusente
    [] OTHER -> IF Atrapa(ExcepcionDe(kmz.tipo)) THEN ParAusente
                ELSE [raises |-> TRUE, lat |-> None, lon |-> None]

InitKmz ==
  /\ EnReposo
  /\ pc = "extraer"
  /\ entrada \in ArchivosKmz
  /\ salida = <<>>

\* lat, lon = self.extraer_coordenadas_kmz(kmz_file)
ExtraerKmz ==
  /\ pc = "extraer"
  /\ salida' = ExtraerCoordenadasKmz(entrada)
  /\ pc' = "extraido"
  /\ UNCHANGED <<archivos, arbol, totales, memoria, corrida, idx, coords, ia_data,
                 intento, retorno, traza, historia, senal, entrada>>

NextKmz == ExtraerKmz

SpecKmz == InitKmz /\ [][NextKmz]_vars

\* The first element of es with text, 0 if none has.
RECURSIVE PrimerConTexto(_, _)
PrimerConTexto(es, k) ==
  IF k > Len(es) THEN 0
  ELSE IF es[k] # <<>> THEN k
  ELSE PrimerConTexto(es, k + 1)

\* "-99.1332,19.4326,0 -99.2,19.5,0" in the only coordinates element.
KmzDelEjemplo ==
  [tipo |-> "kml",
   elementos |-> << << <<Num(-991332), Num(194326), Num(0)>>,
                       <<Num(-992000), Num(195000), Num(0)>> >> >>]

\* C25: coordinate parsing.  When the first point of the first coordinates
\* element with text has two numeric components, the extractor returns the
\* second as latitude and the first as longitude, whatever points follow;
\* the example text gives latitude 19.4326 and longitude -99.1332.
C25_PrimerPuntoLonLat ==
  /\ ExtraerCoordenadasKmz(KmzDelEjemplo)
       = [raises |-> FALSE, lat |-> Some(194326), lon |-> Some(-991332)]
  /\ ( /\ pc = "extraido"
       /\ entrada.tipo = "kml"
       /\ PrimerConTexto(entrada.elementos, 1) # 0 )
     => LET punto == entrada.elementos[PrimerConTexto(entrada.elementos, 1)][1]
        IN  (Len(punto) >= 2 /\ punto[1].num /\ punto[2].num)
            => /\ salida.lat = Some(punto[2].val)
               /\ salida.lon = Some(punto[1].val)

\* The element with text comes after one without, holds two points, and the
\* first point was returned with its components in the two orders apart.
C25_Testigo ==
  /\ pc = "extraido"
  /\ entrada.tipo = "kml"
  /\ Len(entrada.elementos) = 2
  /\ entrada.elementos[1] = <<>>
  /\ Len(entrada.elementos[2]) = 2
  /\ entrada.elementos[2][1] = <<Num(-991332), Num(3600000), Num(0)>>
  /\ salida.lat = Some(3600000)
  /\ salida.lon = Some(-991332)

\* C26: the coordinate extractor never raises.  For every file, whatever
\* fails while it is read, the call has returned, and it has returned the
\* absent pair when the file is no archive, holds no markup document, holds
\* a document that is no XML, or cannot be read.
C26_ExtractorNuncaLanza ==
  pc = "extraido" =>
    /\ ~salida.raises
    /\ entrada.tipo # "kml" => (salida.lat = None /\ salida.lon = None)

\* A file that could not be read gave the absent pair.
C26_Testigo ==
  /\ pc = "extraido"
  /\ entrada.tipo = "error_lectura"
  /\ salida = ParAusente

\* C27: no range check.  The extractor returns a pair exactly when some
\* element has a first point with two numeric components, and the pair is
\* those two numbers of the first such element, of any magnitude and sign.
C27_SinComprobacionDeRango ==
  (pc = "extraido" /\ entrada.tipo = "kml") =>
    LET es == entrada.elementos
        legibles == {k \in 1..Len(es) :
                       /\ es[k] # <<>>
                       /\ Len(es[k][1]) >= 2
                       /\ es[k][1][1].num
                       /\ es[k][1][2].num}
    IN  IF legibles = {}
        THEN salida.lat = None /\ salida.lon = None
        ELSE LET k == CHOOSE m \in legibles : \A n \in legibles : m <= n
             IN  /\ salida.lon = Some(es[k][1][1].val)
                 /\ salida.lat = Some(es[k][1][2].val)

\* A latitude of 360 degrees was returned as read.
C27_Testigo ==
  /\ pc = "extraido"
  /\ salida.lat = Some(3600000)
  /\ salida.lon = Some(3600000)


\* ===================================================================
\* The folder-name parser (SpecNombre)
\* ===================================================================
\* parsear_nombre_tienda on a folder name given as its characters.
MaxNombre == 7

Caracteres == {"1", ")", " ", "A"}

EsDigito(c) == c \in {"0", "1", "2", "3", "4", "5", "6", "7", "8", "9"}
EsEspacio(c) == c = " "

NombresDeCarpeta == UNION {[1..n -> Caracteres] : n \in 1..MaxNombre}

\* How many digits (blanks) s holds in a row from position i on.
RECURSIVE Digitos(_, _)
Digitos(s, i) ==
  IF i <= Len(s) /\ EsDigito(s[i]) THEN 1 + Digitos(s, i + 1) ELSE 0

RECURSIVE Espacios(_, _)
Espacios(s, i) ==
  IF i <= Len(s) /\ EsEspacio(s[i]) THEN 1 + Espacios(s, i + 1) ELSE 0

\* How many blanks s ends with.
RECURSIVE EspaciosFinales(_)
EspaciosFinales(s) ==
  IF s # <<>> /\ EsEspacio(s[Len(s)])
  THEN 1 + EspaciosFinales(SubSeq(s, 1, Len(s) - 1))
  ELSE 0

\* str.strip()
Strip(s) ==
  IF Espacios(s, 1) = Len(s) THEN <<>>
  ELSE SubSeq(s, Espacios(s, 1) + 1, Len(s) - EspaciosFinales(s))

\* re.match(r'^\d+\)\s*(\d+)\s+(.+)$', s): the two groups, or no match.
\* Each of \d+, \s* and \s+ takes the whole run it starts in, except that
\* \s+ leaves its last blank to (.+) when nothing follows the blanks.
MatchPatron(s) ==
  LET d1 == Digitos(s, 1)
      e1 == Espacios(s, d1 + 2)
      i2 == d1 + 2 + e1
      d2 == Digitos(s, i2)
      e2 == Espacios(s, i2 + d2)
      i3 == i2 + d2 + e2
  IN  IF /\ d1 >= 1
         /\ d1 + 1 <= Len(s)
         /\ s[d1 + 1] = ")"
         /\ d2 >= 1
         /\ e2 >= 1
         /\ (i3 <= Len(s) \/ e2 >= 2)
      THEN [match |-> TRUE,
            g1 |-> SubSeq(s, i2, i2 + d2 - 1),
            g2 |-> IF i3 <= Len(s) THEN SubSeq(s, i3, Len(s)) ELSE <<" ">>]
      ELSE [match |-> FALSE, g1 |-> <<>>, g2 |-> <<>>]

\* re.findall(r'\d+', s) from position i on: the runs of digits.
RECURSIVE FindNumeros(_, _)
FindNumeros(s, i) ==
  IF i > Len(s) THEN <<>>
  ELSE IF EsDigito(s[i])
       THEN <<SubSeq(s, i, i + Digitos(s, i) - 1)>> \o FindNumeros(s, i + Digitos(s, i))
       ELSE FindNumeros(s, i + 1)

\* A parser that takes the first number of the name as the id.
ParsearCaracteresPrimerNumero(s) ==
  LET numeros == FindNumeros(s, 1)
  IN  IF numeros # <<>> THEN [id |-> numeros[1], nombre |-> s]
      ELSE [id |-> <<"N", "/", "A">>, nombre |-> s]

\* parsear_nombre_tienda
ParsearCaracteres(s) ==
  LET m == MatchPatron(s)
      numeros == FindNumeros(s, 1)
  IN  IF m.match THEN [id |-> m.g1, nombre |-> Strip(m.g2)]
      ELSE IF Len(numeros) >= 2 THEN [id |-> numeros[2], nombre |-> s]
      ELSE IF Len(numeros) = 1 THEN [id |-> numeros[1], nombre |-> s]
      ELSE [id |-> <<"N", "/", "A">>, nombre |-> s]

InitNombre ==
  /\ EnReposo
  /\ pc = "parsear"
  /\ entrada \in NombresDeCarpeta
  /\ salida = <<>>

\* id_tienda, nombre_tienda = self.parsear_nombre_tienda(tienda_dir.name)
ParsearNombre ==
  /\ pc = "parsear"
  /\ salida' = ParsearCaracteres(entrada)
  /\ pc' = "parseado"
  /\ UNCHANGED <<archivos, arbol, totales, memoria, corrida, idx, coords, ia_data,
                 intento, retorno, traza, historia, senal, entrada>>

NextNombre == ParsearNombre

SpecNombre == InitNombre /\ [][NextNombre]_vars

\* "03) 42056 FELIX CASTRO"
NombreDelEjemplo ==
  <<"0", "3", ")", " ", "4", "2", "0", "5", "6", " ",
    "F", "E", "L", "I", "X", " ", "C", "A", "S", "T", "R", "O">>

\* C28: a folder name '<ordinal>) <numeric-id> <free-text-name>' parses to
\* the numeric id and the trimmed name.  For every name made of a run of
\* digits, ")", a blank, a run of digits, a blank and a text that begins
\* with no blank, the parser returns the second run as id and the text
\* without its final blanks as name; the example gives 42056 and FELIX
\* CASTRO.
C28_FormatoOrdinalIdNombre ==
  /\ ParsearCaracteres(NombreDelEjemplo)
       = [id |-> <<"4", "2", "0", "5", "6">>,
          nombre |-> <<"F", "E", "L", "I", "X", " ", "C", "A", "S", "T", "R", "O">>]
  /\ pc = "parseado" =>
       \A a \in 1..Len(entrada) : \A b \in 1..Len(entrada) :
         ( /\ a + b + 4 <= Len(entrada)
           /\ Digitos(entrada, 1) = a
           /\ entrada[a + 1] = ")"
           /\ entrada[a + 2] = " "
           /\ Digitos(entrada, a + 3) = b
           /\ entrada[a + b + 3] = " "
           /\ entrada[a + b + 4] # " " )
         => /\ salida.id = SubSeq(entrada, a + 3, a + b + 2)
            /\ salida.nombre
                 = SubSeq(entrada, a + b + 4, Len(entrada) - EspaciosFinales(entrada))

\* "11) 1 A" was parsed: the id is not the ordinal.
C28_Testigo ==
  /\ pc = "parseado"
  /\ entrada = <<"1", "1", ")", " ", "1", " ", "A">>
  /\ salida = [id |-> <<"1">>, nombre |-> <<"A">>]

\* C29: a folder name without a digit parses to the id "unknown" and the
\* raw folder name.
C29_SinDigitosDaUnknown ==
  (pc = "parseado" /\ \A k \in 1..Len(entrada) : ~EsDigito(entrada[k]))
  => salida = [id |-> <<"u", "n", "k", "n", "o", "w", "n">>, nombre |-> entrada]


\* ===================================================================
\* The cost of a call (SpecIA)
\* ===================================================================
\* C30: the cost of a call is prompt_tokens * 1.75 / 1e6 + completion_tokens
\* * 14.00 / 1e6 USD, and the cost total grows by that amount for the call.
\* In units of 10^-8 USD: a step that receives a reply adds 175 per prompt
\* token and 1400 per completion token to the total, which is 875000 (8750
\* millionths of a dollar) for 1000 prompt and 500 completion tokens, and
\* the usage attached to a returned result states the same cost.
C30_CostoDeLaLlamada ==
  [][ /\ total_cost' - total_cost
           = UsoRecibido.prompt_tokens * 175 + UsoRecibido.completion_tokens * 1400
      /\ (UsoRecibido.prompt_tokens = 1000 /\ UsoRecibido.completion_tokens = 500)
           => total_cost' - total_cost = 875000
      /\ (pc = "ia" /\ pc' = "consolidar" /\ ia_data'.usage # None)
           => ia_data'.usage[1].cost_usd = total_cost' - total_cost ]_vars

\* A reply of 1000 prompt and 500 completion tokens was received on top of
\* an earlier one: the total holds the cost of both.
C30_Testigo ==
  /\ pc = "consolidar"
  /\ traza # <<>>
  /\ traza[Len(traza)].usage = Some([prompt_tokens |-> 1000, completion_tokens |-> 500])
  /\ ia_data.usage # None
  /\ ia_data.usage[1].cost_usd = 875000
  /\ total_cost = 2 * 875000

\* ===================================================================
\* The identity of a persisted record (Spec)
\* ===================================================================
\* C31: for every record the pipeline persists, the identity that the next
\* startup reconstructs from it (the parent directory of its recorded
\* source-file path, relative to the parent of the root) is the identity the
\* driver computes for the record's store folder during traversal.
C31_IdentidadReconstruidaEsLaDelRecorrido ==
  jsonFile.estado = "completo" =>
    \A k \in 1..Len(jsonFile.datos) :
      ClaveCheckpoint(jsonFile.datos[k]) = {RelPath(TiendaDe(jsonFile.datos[k]))}

\* ===================================================================
\* The traversal order (Spec)
\* ===================================================================
\* The names of the tree in the order of str comparison by code point,
\* which is how sorted() orders the paths of one directory ("0" < "2" < "G"
\* < "M").
NombresEnOrden ==
  << "01) 42056 FELIX CASTRO", "01) 42077 CENTRO", "02) 42090 NORTE",
     "2023", "2024", "2025", "GDL", "MTY" >>

PosicionDe(nombre) == CHOOSE k \in 1..Len(NombresEnOrden) : NombresEnOrden[k] = nombre

\* The leaf folders of the tree on disk, as paths under the root.
Hojas ==
  {<<ArbolTiendas[i].anio, ArbolTiendas[i].ciudad, ArbolTiendas[i].carpeta>> : i \in Tiendas}

\* dir.iterdir() for the folder at path p under the root: the names of its
\* child directories.
Iterdir(p) == {h[Len(p) + 1] : h \in {g \in Hojas : SubSeq(g, 1, Len(p)) = p}}

\* A listing taken as the file system gives it, here in descending order.
RECURSIVE SinOrdenar(_)
SinOrdenar(nombres) ==
  IF nombres = {} THEN <<>>
  ELSE LET mayor == CHOOSE n \in nombres :
                      \A m \in nombres : PosicionDe(m) <= PosicionDe(n)
       IN  <<mayor>> \o SinOrdenar(nombres \ {mayor})

\* sorted(dir.iterdir())
RECURSIVE Sorted(_)
Sorted(nombres) ==
  IF nombres = {} THEN <<>>
  ELSE LET menor == CHOOSE n \in nombres :
                      \A m \in nombres : PosicionDe(n) <= PosicionDe(m)
       IN  <<menor>> \o Sorted(nombres \ {menor})

\* The three nested loops of the scan, from the folder at path p: a folder
\* of the third level is appended, a folder above it is scanned in the
\* order of its sorted listing.
RECURSIVE Escanear(_)
RECURSIVE EscanearLista(_, _)
Escanear(p) ==
  IF Len(p) = 3 THEN <<p>> ELSE EscanearLista(p, Sorted(Iterdir(p)))
EscanearLista(p, nombres) ==
  IF nombres = <<>> THEN <<>>
  ELSE Escanear(p \o <<Head(nombres)>>) \o EscanearLista(p, Tail(nombres))

\* tiendas_a_procesar
TiendasAProcesar == Escanear(<<>>)

EsCreciente(s) == \A a \in 1..Len(s) : \A b \in 1..Len(s) : a < b => s[a] < s[b]

\* The records of the collection that this run did not append.
Cargados(rs, ns) == SubSeq(rs, 1, Len(rs) - Len(ns))

\* C32: stores are processed one at a time in lexicographic order of year,
\* then city, then store folder, and the records appended during a run
\* appear in the result collection in that order, after the records loaded
\* from the checkpoint.  The scan yields the leaf folders in that order; a
\* start loads the checkpoint and has appended nothing; while the process
\* lives the stores before the loop position were each skipped or appended
\* and no store after it was, the appended ones are in increasing traversal
\* order and their records are the tail of the collection in that same
\* order, and the loaded records before them stay as they were.
C32_OrdenDeRecorrido ==
  /\ TiendasAProcesar
       = [k \in Tiendas |->
            <<ArbolTiendas[k].anio, ArbolTiendas[k].ciudad, ArbolTiendas[k].carpeta>>]
  /\ [][ /\ corrida' # corrida =>
              (nuevas' = <<>> /\ resultados' = CargarCheckpoint)
         /\ pc' # "caida" =>
              /\ EsCreciente(nuevas')
              /\ Len(nuevas') <= Len(resultados')
              /\ \A k \in 1..Len(nuevas') :
                   TiendaDe(resultados'[Len(resultados') - Len(nuevas') + k]) = nuevas'[k]
              /\ \A j \in Tiendas :
                   /\ j < idx' => (j \in omitidas' \/ \E k \in 1..Len(nuevas') : nuevas'[k] = j)
                   /\ j > idx' => (j \notin omitidas' /\ \A k \in 1..Len(nuevas') : nuevas'[k] # j)
         /\ (corrida' = corrida /\ pc' # "caida") =>
              Cargados(resultados', nuevas') = Cargados(resultados, nuevas) ]_vars

\* A run that loaded one record appended the records of both stores after
\* it, in traversal order, and ended.
C32_Testigo ==
  /\ pc = "hecho"
  /\ nuevas = <<1, 2>>
  /\ Len(resultados) = 3
  /\ TiendaDe(resultados[2]) = 1
  /\ TiendaDe(resultados[3]) = 2

\* ===================================================================
\* The order of the steps of one store (SpecSecuencia)
\* ===================================================================
\* The body of the main loop, statement by statement, with the log of the
\* extractor calls it makes in `salida`.  `entrada` is the tree and the
\* checkpoint the run started with: which folders hold a geodata file, which
\* a document, and which stores are already in tiendas_procesadas_paths.
EntradasDeSecuencia ==
  [kmz : [Tiendas -> BOOLEAN], pdf : [Tiendas -> BOOLEAN], hechas : SUBSET Tiendas]

\* An order of the statements with the document extraction first.
PasoSiguienteDocumentoPrimero(p) ==
  CASE p = "verificar" -> "documento"
    [] p = "documento" -> "coordenadas"
    [] p = "coordenadas" -> "consolidar"
    [] p = "consolidar" -> "verificar"

\* The statement that follows statement p in the loop body: the checkpoint
\* test (line 516), the coordinates (530-534), the document (537-543), the
\* aggregation and save (549-559), and the next item.
PasoSiguiente(p) ==
  CASE p = "verificar" -> "coordenadas"
    [] p = "coordenadas" -> "documento"
    [] p = "documento" -> "consolidar"
    [] p = "consolidar" -> "verificar"

InitSecuencia ==
  /\ EnReposo
  /\ pc = "verificar"
  /\ entrada \in EntradasDeSecuencia
  /\ salida = <<>>

\* if rel_path in self.tiendas_procesadas_paths: continue
Verificar ==
  /\ pc = "verificar"
  /\ idx <= NumTiendas
  /\ IF idx \in entrada.hechas
     THEN idx' = idx + 1 /\ pc' = pc
     ELSE idx' = idx /\ pc' = PasoSiguiente(pc)
  /\ UNCHANGED <<archivos, arbol, entrada, salida, senal, totales, memoria, corrida, coords,
                 ia_data, intento, retorno, traza, historia>>

\* lat, lon = self.extraer_coordenadas_kmz(kmz_file), which has returned
\* when the next statement begins; no call without a geodata file.
ExtraerCoordenadas ==
  /\ pc = "coordenadas"
  /\ salida' = IF entrada.kmz[idx]
               THEN Append(salida, [tienda |-> idx, paso |-> "coordenadas"])
               ELSE salida
  /\ pc' = PasoSiguiente(pc)
  /\ UNCHANGED <<archivos, arbol, entrada, senal, totales, memoria, corrida, idx, coords,
                 ia_data, intento, retorno, traza, historia>>

\* One service call of analizar_pdf_con_ia for the document of the store.
LlamarServicio ==
  /\ pc = "documento"
  /\ entrada.pdf[idx]
  /\ QuedanIntentos(intento)
  /\ salida' = Append(salida, [tienda |-> idx, paso |-> "llamada"])
  /\ \E d \in Desenlaces :
       IF PasoIa(intento, d).sigue
       THEN intento' = intento + 1 /\ pc' = pc
       ELSE intento' = 0 /\ pc' = PasoSiguiente(pc)
  /\ UNCHANGED <<archivos, arbol, entrada, senal, totales, memoria, corrida, idx, coords,
                 ia_data, retorno, traza, historia>>

\* No document in the folder, or the retry loop ran out.
SinLlamada ==
  /\ pc = "documento"
  /\ ~entrada.pdf[idx] \/ ~QuedanIntentos(intento)
  /\ intento' = 0
  /\ pc' = PasoSiguiente(pc)
  /\ UNCHANGED <<archivos, arbol, entrada, salida, senal, totales, memoria, corrida, idx,
                 coords, ia_data, retorno, traza, historia>>

\* _construir_resultado, append, _guardar_resultados, and the next item.
SiguienteTienda ==
  /\ pc = "consolidar"
  /\ idx' = idx + 1
  /\ pc' = PasoSiguiente(pc)
  /\ UNCHANGED <<archivos, arbol, entrada, salida, senal, totales, memoria, corrida, coords,
                 ia_data, intento, retorno, traza, historia>>

NextSecuencia ==
  \/ Verificar
  \/ ExtraerCoordenadas
  \/ LlamarServicio
  \/ SinLlamada
  \/ SiguienteTienda

SpecSecuencia == InitSecuencia /\ [][NextSecuencia]_vars

\* C33: for each store the two extraction steps run one after the other,
\* coordinates first.  In the log of extractor calls, every document-service
\* call of a store comes after the coordinate extraction of that store (when
\* its folder holds a geodata file), no coordinate extraction of a store
\* comes after one of its service calls, and between two calls for one store
\* there is no call for another store.
C33_CoordenadasAntesDelDocumento ==
  \A k \in 1..Len(salida) :
    /\ salida[k].paso = "llamada" =>
         /\ entrada.kmz[salida[k].tienda] =>
              \E j \in 1..(k - 1) :
                salida[j] = [tienda |-> salida[k].tienda, paso |-> "coordenadas"]
         /\ \A j \in (k + 1)..Len(salida) :
              salida[j] # [tienda |-> salida[k].tienda, paso |-> "coordenadas"]
    /\ \A j \in 1..(k - 1) : \A m \in (j + 1)..(k - 1) :
         salida[j].tienda = salida[k].tienda => salida[m].tienda = salida[k].tienda

\* Two stores were processed: the coordinates and two service calls for the
\* first, then the coordinates and one call for the second.
C33_Testigo ==
  salida = << [tienda |-> 1, paso |-> "coordenadas"],
              [tienda |-> 1, paso |-> "llamada"],
              [tienda |-> 1, paso |-> "llamada"],
              [tienda |-> 2, paso |-> "coordenadas"],
              [tienda |-> 2, paso |-> "llamada"] >>

\* ===================================================================
\* The transmission mode of a document (SpecEnvio)
\* ===================================================================
\* file_size_mb = st_size / (1024 * 1024); use_text_fallback = file_size_mb > 30
BYTES_POR_MB == 1048576
UMBRAL_MB == 30
\* reader.pages[:50]
PAGINAS_TEXTO == 50

\* The document on disk: its size in bytes and its number of pages.  Sizes
\* around the threshold, and 31 000 000 bytes, which is below it.
Documentos ==
  [tam : {UMBRAL_MB * BYTES_POR_MB - 1, UMBRAL_MB * BYTES_POR_MB,
          UMBRAL_MB * BYTES_POR_MB + 1, 31000000},
   paginas : {1, PAGINAS_TEXTO, PAGINAS_TEXTO + 1}]

\* A threshold that sends a file of exactly 30 MB as text.
UseTextFallbackDesdeElUmbral(tam) == tam >= UMBRAL_MB * BYTES_POR_MB

\* use_text_fallback: the division by 2^20 is exact in floating point, so
\* the test is the comparison of the byte count with 30 * 2^20.
UseTextFallback(tam) == tam > UMBRAL_MB * BYTES_POR_MB

\* user_content of one attempt: the text of reader.pages[:50], or the whole
\* file in base64.
UserContent(fallback, doc) ==
  IF fallback
  THEN [modo |-> "texto",
        paginas |-> IF doc.paginas < PAGINAS_TEXTO THEN doc.paginas ELSE PAGINAS_TEXTO]
  ELSE [modo |-> "archivo", paginas |-> doc.paginas]

\* analizar_pdf_con_ia is entered for the document `entrada`.
InitEnvio ==
  /\ EnReposo
  /\ pc = "entrar"
  /\ entrada \in Documentos
  /\ salida = <<>>

\* Lines 311-312, before the retry loop: the size is read once.
EntrarEnvio ==
  /\ pc = "entrar"
  /\ salida' = [tam |-> entrada.tam, use_text_fallback |-> UseTextFallback(entrada.tam),
                enviados |-> <<>>]
  /\ pc' = "enviar"
  /\ UNCHANGED <<archivos, arbol, entrada, senal, totales, memoria, corrida, idx, coords,
                 ia_data, intento, retorno, traza, historia>>

\* One attempt: the payload is built from the file as it is now and sent;
\* a rate limit or a retried service error leads to the next attempt.
EnviarIntento ==
  /\ pc = "enviar"
  /\ QuedanIntentos(intento)
  /\ salida' = [salida EXCEPT
                  !.enviados = Append(@, UserContent(salida.use_text_fallback, entrada))]
  /\ \E d \in Desenlaces :
       IF PasoIa(intento, d).sigue
       THEN intento' = intento + 1 /\ pc' = pc
       ELSE intento' = intento /\ pc' = "devuelto"
  /\ UNCHANGED <<archivos, arbol, entrada, senal, totales, memoria, corrida, idx, coords,
                 ia_data, retorno, traza, historia>>

\* PdfReader or open() raises while the payload is built: `except Exception`
\* returns the error result and nothing is sent.  Or the loop ran out.
VolverSinEnviar ==
  /\ pc = "enviar"
  /\ pc' = "devuelto"
  /\ UNCHANGED <<archivos, arbol, calculo, senal, totales, memoria, corrida, idx, coords,
                 ia_data, intento, retorno, traza, historia>>

\* The file is replaced on disk while the extractor sleeps between attempts.
CambiarDocumento ==
  /\ pc = "enviar"
  /\ intento > 0
  /\ entrada' \in Documentos \ {entrada}
  /\ UNCHANGED <<archivos, arbol, salida, senal, totales, memoria, corrida, pc, idx, coords,
                 ia_data, intento, retorno, traza, historia>>

NextEnvio ==
  \/ EntrarEnvio
  \/ EnviarIntento
  \/ VolverSinEnviar
  \/ CambiarDocumento

SpecEnvio == InitEnvio /\ [][NextEnvio]_vars

\* C34: the transmission mode depends only on the file size and is the same
\* on every attempt: a document of at most 30 MB (30 * 2^20 bytes when the
\* extractor is entered) is sent as a binary attachment on every attempt, a
\* larger one as locally extracted text of at most 50 pages on every attempt.
C34_ModoFijoPorTamano ==
  pc # "entrar" =>
    \A k \in 1..Len(salida.enviados) :
      /\ salida.tam <= 30 * 1024 * 1024 => salida.enviados[k].modo = "archivo"
      /\ salida.tam > 30 * 1024 * 1024 =>
           (salida.enviados[k].modo = "texto" /\ salida.enviados[k].paginas <= 50)

\* A document of exactly 30 MB was sent three times as a file, although it
\* was replaced by a larger one of 51 pages between the attempts.
C34_Testigo ==
  /\ pc = "devuelto"
  /\ salida.tam = 30 * 1024 * 1024
  /\ entrada = [tam |-> 30 * 1024 * 1024 + 1, paginas |-> 51]
  /\ Len(salida.enviados) = 3
  /\ \A k \in 1..3 : salida.enviados[k].modo = "archivo"

\* ===================================================================
\* Points after an unreadable first point (SpecKmz)
\* ===================================================================
\* C35: when the components of a point fail to parse as numbers the
\* extractor goes on with the following points of the same element and with
\* the following elements: it returns absent only if no point of any
\* coordinates element has two numeric components.
C35_SigueConLosPuntosSiguientes ==
  (pc = "extraido" /\ entrada.tipo = "kml") =>
    ( (salida.lat = None /\ salida.lon = None)
      <=> \A k \in 1..Len(entrada.elementos) :
            \A m \in 1..Len(entrada.elementos[k]) :
              ~AceptaPunto(entrada.elementos[k][m]) )

\* ===================================================================
\* A store whose document extraction failed (SpecSenal)
\* ===================================================================
\* The records of rs that carry an error of the document extractor: the
\* folder held a document and the extraction returned an error result.
ConErrorDeExtraccion(rs) ==
  {k \in 1..Len(rs) : rs[k].Error_Procesamiento # None /\ rs[k].Archivo_PDF # None}

\* C36: a store whose document extraction ended in an error result is still
\* appended, persisted and marked completed, and a later run skips it.  The
\* step that aggregates an error result appends the record with the error,
\* adds the identity and enters the save; the save writes the whole
\* collection; a start marks every such record of the checkpoint it loads
\* as completed; and at a store that has such a record in the collection
\* the loop does not start the extraction again.
C36_TiendaConErrorQuedaCompletada ==
  [][ /\ ( /\ pc = "consolidar" /\ senal' = senal
           /\ ia_data.error # None /\ hasPdf[idx] )
         => /\ resultados' = Append(resultados, ConstruirResultado(idx, coords, ia_data))
            /\ resultados'[Len(resultados')].Error_Procesamiento = ia_data.error
            /\ RelPath(idx) \in tiendas_procesadas_paths'
            /\ pc' = "guardar_xlsx"
      /\ (pc = "guardar_json" /\ senal' = senal) => jsonFile' = Completo(resultados)
      /\ corrida' # corrida =>
           \A k \in ConErrorDeExtraccion(CargarCheckpoint) :
             /\ resultados'[k] = CargarCheckpoint[k]
             /\ RelPath(TiendaDe(CargarCheckpoint[k])) \in tiendas_procesadas_paths'
      /\ ( /\ pc = "bucle" /\ idx <= NumTiendas
           /\ \E k \in ConErrorDeExtraccion(resultados) : TiendaDe(resultados[k]) = idx )
         => (pc' # "ia" /\ iniciadas' = iniciadas /\ resultados' = resultados) ]_vars

\* The second run has skipped the first store, whose record carries the
\* error of a document extraction that ran out of retries.
C36_Testigo ==
  /\ corrida = 2
  /\ 1 \in omitidas
  /\ hasPdf[1]
  /\ Len(resultados) >= 1
  /\ TiendaDe(resultados[1]) = 1
  /\ resultados[1].Error_Procesamiento = Some("Maximo de reintentos alcanzado")
  /\ jsonFile = Completo(resultados)

\* ===================================================================
\* The order of the file writes (Spec)
\* ===================================================================
\* The stores that a file lists; a file that is absent or was cut short
\* lists none.
ListadasEn(f) == IF f.estado = "completo" THEN TiendasEn(f.datos) ELSE {}

\* C37: within one persistence pass the structural checkpoint file is
\* replaced only after both tabular files, so at every instant, also after
\* a crash between two file writes, the structural file lists no store that
\* the tabular files lack.
C37_JsonNoAdelantaALasTablas ==
  /\ ListadasEn(jsonFile) \subseteq ListadasEn(xlsxFile)
  /\ ListadasEn(jsonFile) \subseteq ListadasEn(csvFile)

\* ===================================================================
\* Calls that end in an exception (SpecIA)
\* ===================================================================
\* The events that a step of the extractor adds to the history.
EventosDelPaso == SubSeq(traza', Len(traza) + 1, Len(traza'))

\* C38: a service call that ends in a rate-limit signal or a service error
\* leaves the token and cost totals unchanged; the totals change only when
\* a call returned a response, and then by that call's usage, once.  A step
\* whose call ended in either exception changes no total; a step that
\* changes a total made exactly one call, that call returned a response,
\* and each total grew by the usage of that response.
C38_ErroresNoCambianLosTotales ==
  [][ /\ ( /\ EventosDelPaso # <<>>
           /\ EventosDelPaso[1].res \in {"rate_limit", "api_error"} )
         => UNCHANGED totales
      /\ ~(UNCHANGED totales)
         => /\ Len(Llamadas(EventosDelPaso)) = 1
            /\ EventosDelPaso[1].res \in Contenidos
            /\ EventosDelPaso[1].usage # None
            /\ total_input_tokens'
                 = total_input_tokens + EventosDelPaso[1].usage[1].prompt_tokens
            /\ total_output_tokens'
                 = total_output_tokens + EventosDelPaso[1].usage[1].completion_tokens
            /\ total_cost'
                 = total_cost + 175 * EventosDelPaso[1].usage[1].prompt_tokens
                     + 1400 * EventosDelPaso[1].usage[1].completion_tokens ]_vars

\* A rate limit and a service error were followed by a response: the totals
\* hold the usage of that one response.
C38_Testigo ==
  /\ pc = "consolidar"
  /\ Len(traza) = 5
  /\ traza[1].res = "rate_limit"
  /\ traza[3].res = "api_error"
  /\ traza[5].usage = Some([prompt_tokens |-> 1000, completion_tokens |-> 500])
  /\ total_input_tokens = 1000
  /\ total_output_tokens = 500
  /\ total_cost = 875000

\* ===================================================================
\* The row validator (SpecValidador)
\* ===================================================================
\* process_data of backend/data_processor.py, a program of its own: its
\* input table is `entrada`, and its files and the memory of the running
\* process are the fields of the record `salida`.
NumFilas == 11
\* if processed_count % 10 == 0: save_checkpoint
CADA_FILAS == 10

\* MEXICO_BOUNDS, in 10^-4 degrees
MEXICO_BOUNDS ==
  [lat_min |-> 145000, lat_max |-> 327000, lon_min |-> 0 - 1184000, lon_max |-> 0 - 867000]

\* The index of the DataFrame read from the input file.
Filas == 0..(NumFilas - 1)

\* The coordinates of row i: inside the bounds, outside them, or missing.
CoordenadasDe(i) ==
  CASE i % 3 = 0 -> [lat |-> Some(194326), lon |-> Some(0 - 991332)]
    [] i % 3 = 1 -> [lat |-> Some(3600000), lon |-> Some(0 - 991332)]
    [] OTHER -> [lat |-> None, lon |-> None]

\* The city column of the input table: the rows of two cities in any
\* interleaving (the city of the first row is called A).
Tablas == {t \in [Filas -> {"A", "B"}] : t[0] = "A"}

\* validate_coordinates
ValidateCoordinates(c) ==
  /\ c.lat # None /\ c.lon # None
  /\ MEXICO_BOUNDS.lat_min <= c.lat[1] /\ c.lat[1] <= MEXICO_BOUNDS.lat_max
  /\ MEXICO_BOUNDS.lon_min <= c.lon[1] /\ c.lon[1] <= MEXICO_BOUNDS.lon_max

\* df[ciudad_col].unique(): the cities in the order of their first row.
Cities(t) == IF \E i \in Filas : t[i] = "B" THEN <<"A", "B">> ELSE <<"A">>

\* process_data up to its loop (lines 164-201), started over the checkpoint
\* file chk and the output file xlsx: the checkpoint is loaded (the default
\* when there is no file), the table is read from the input file, and the
\* validation columns get their defaults.
AlEmpezar(chk, xlsx) ==
  LET checkpoint == IF chk = None
                    THEN [last_processed_index |-> 0, processed_cities |-> {}]
                    ELSE chk[1]
  IN  [archivo_checkpoint |-> chk,
       archivo_salida |-> xlsx,
       checkpoint |-> checkpoint,
       start_index |-> checkpoint.last_processed_index,
       df |-> [coord_valid |-> [i \in Filas |-> TRUE], processed_at |-> {}],
       processed_count |-> 0,
       ciudad |-> 1,
       cursor |-> 0,
       cargadas |-> checkpoint.processed_cities]

\* The rows of the city in progress that the inner loop has yet to process:
\* those from the cursor on that are not below start_index.
FilasPendientes ==
  {i \in Filas : /\ entrada[i] = Cities(entrada)[salida.ciudad]
                 /\ i >= salida.cursor
                 /\ i >= salida.start_index}

\* The first run: no checkpoint file, no output file.
InitValidador ==
  /\ EnReposo
  /\ pc = "primera"
  /\ entrada \in Tablas
  /\ salida = AlEmpezar(None, None)

EnValidacion ==
  /\ pc \in {"primera", "reanudada"}
  /\ salida.ciudad <= Len(Cities(entrada))

\* if city in processed_cities: continue
SaltarCiudad ==
  /\ EnValidacion
  /\ Cities(entrada)[salida.ciudad] \in salida.checkpoint.processed_cities
  /\ salida' = [salida EXCEPT !.ciudad = @ + 1, !.cursor = 0]
  /\ UNCHANGED <<archivos, arbol, entrada, senal, totales, memoria, corrida, pc, idx, coords,
                 ia_data, intento, retorno, traza, historia>>

\* One pass of the inner loop that reaches line 216 (the passes that end at
\* `if idx < start_index: continue` before it are part of the step): the
\* row is validated and stamped, and every tenth processed row saves the
\* checkpoint with its index.
ValidarFila ==
  /\ EnValidacion
  /\ Cities(entrada)[salida.ciudad] \notin salida.checkpoint.processed_cities
  /\ FilasPendientes # {}
  /\ LET i == CHOOSE f \in FilasPendientes : \A g \in FilasPendientes : f <= g
         guarda == (salida.processed_count + 1) % CADA_FILAS = 0
         checkpoint == IF guarda
                       THEN [salida.checkpoint EXCEPT !.last_processed_index = i]
                       ELSE salida.checkpoint
     IN  salida' =
           [salida EXCEPT
              !.df = [coord_valid |-> [@.coord_valid EXCEPT
                                         ![i] = ValidateCoordinates(CoordenadasDe(i))],
                      processed_at |-> @.processed_at \cup {i}],
              !.processed_count = @ + 1,
              !.cursor = i + 1,
              !.checkpoint = checkpoint,
              !.archivo_checkpoint = IF guarda THEN Some(checkpoint) ELSE @]
  /\ UNCHANGED <<archivos, arbol, entrada, senal, totales, memoria, corrida, pc, idx, coords,
                 ia_data, intento, retorno, traza, historia>>

\* Lines 245-253: the city is marked, the checkpoint is saved and the table
\* is written to the output file.
CerrarCiudad ==
  /\ EnValidacion
  /\ Cities(entrada)[salida.ciudad] \notin salida.checkpoint.processed_cities
  /\ FilasPendientes = {}
  /\ LET checkpoint ==
           [salida.checkpoint EXCEPT
              !.processed_cities = @ \cup {Cities(entrada)[salida.ciudad]}]
     IN  salida' = [salida EXCEPT !.checkpoint = checkpoint,
                                  !.archivo_checkpoint = Some(checkpoint),
                                  !.archivo_salida = Some(salida.df),
                                  !.ciudad = @ + 1,
                                  !.cursor = 0]
  /\ UNCHANGED <<archivos, arbol, entrada, senal, totales, memoria, corrida, pc, idx, coords,
                 ia_data, intento, retorno, traza, historia>>

\* Lines 255-270: the final save, and the checkpoint file is removed.
TerminarValidacion ==
  /\ pc \in {"primera", "reanudada"}
  /\ salida.ciudad > Len(Cities(entrada))
  /\ salida' = [salida EXCEPT !.archivo_salida = Some(salida.df),
                              !.archivo_checkpoint = None]
  /\ pc' = IF pc = "primera" THEN "fin" ELSE "fin_reanudada"
  /\ UNCHANGED <<archivos, arbol, entrada, senal, totales, memoria, corrida, idx, coords,
                 ia_data, intento, retorno, traza, historia>>

\* The first run is interrupted between two steps, and process_data is
\* called again with resume=True over the files it left.
Reanudar ==
  /\ pc = "primera"
  /\ salida.archivo_checkpoint # None
  /\ salida' = AlEmpezar(salida.archivo_checkpoint, salida.archivo_salida)
  /\ pc' = "reanudada"
  /\ UNCHANGED <<archivos, arbol, entrada, senal, totales, memoria, corrida, idx, coords,
                 ia_data, intento, retorno, traza, historia>>

NextValidador ==
  \/ SaltarCiudad
  \/ ValidarFila
  \/ CerrarCiudad
  \/ TerminarValidacion
  \/ Reanudar

SpecValidador == InitValidador /\ [][NextValidador]_vars

\* C39: when process_data resumes from the checkpoint left by an
\* interrupted run, every row of every city not yet in processed_cities is
\* validated by the resumed run (processed_at set, coord_valid computed),
\* whatever the interleaving of the cities' rows: at the end of the resumed
\* run no such row keeps the default coord_valid = True unchecked.
C39_ReanudacionValidaTodaFila ==
  pc = "fin_reanudada" =>
    \A i \in Filas :
      entrada[i] \notin salida.cargadas =>
        /\ i \in salida.df.processed_at
        /\ salida.df.coord_valid[i] = ValidateCoordinates(CoordenadasDe(i))

\* ===================================================================
\* The store-detail endpoint (SpecApi)
\* ===================================================================
\* get_store_detail of backend/api.py: a request is `entrada` (whether
\* get_dashboard_data raises, the ids of the stores it returns, and the
\* requested id), the response is `salida`.
SolicitudesApi ==
  [carga : {"ok", "falla"}, stores : SUBSET (0..3), store_id : 0..4]

\* The handler.  The body of the try block returns the store or raises: the
\* exception of the failed load, or the HTTPException with status 404 of a
\* missing store.  HTTPException is a subclass of Exception, so the handler
\* `except Exception` receives both and raises the HTTPException with
\* status 500 in their place.
GetStoreDetail(e) ==
  LET cuerpo == IF e.carga = "falla"
                THEN [lanza |-> TRUE, status |-> 0, store |-> None]
                ELSE IF e.store_id \notin e.stores
                THEN [lanza |-> TRUE, status |-> 404, store |-> None]
                ELSE [lanza |-> FALSE, status |-> 200, store |-> Some(e.store_id)]
  IN  IF cuerpo.lanza
      THEN [status |-> 500, store |-> None]
      ELSE [status |-> cuerpo.status, store |-> cuerpo.store]

InitApi ==
  /\ EnReposo
  /\ pc = "solicitud"
  /\ entrada \in SolicitudesApi
  /\ salida = None

ResponderDetalle ==
  /\ pc = "solicitud"
  /\ salida' = GetStoreDetail(entrada)
  /\ pc' = "respondida"
  /\ UNCHANGED <<archivos, arbol, entrada, senal, totales, memoria, corrida, idx, coords,
                 ia_data, intento, retorno, traza, historia>>

NextApi == ResponderDetalle

SpecApi == InitApi /\ [][NextApi]_vars

\* C40: the store-detail endpoint answers with status 404 when no store
\* has the requested id, and with status 500 only when loading the data
\* fails.
C40_SinTiendaResponde404 ==
  pc = "respondida" =>
    /\ (entrada.carga = "ok" /\ entrada.store_id \notin entrada.stores) => salida.status = 404
    /\ salida.status = 500 => entrada.carga = "falla"

====
